---- MODULE Spec2Model ----
(***************************************************************************)
(* Protocol fitness tracker: the localStorage persistence layer            *)
(* (utils/storage.ts), the rotation schedule (utils/calculations.ts) and   *)
(* the constants of types/index.ts.                                        *)
(*                                                                         *)
(* Records carry the fields the code compares (id, date, type,             *)
(* templateId); the remaining payload of a record (exercises, createdAt,   *)
(* macros, ...) is copied verbatim by every operation and is represented   *)
(* by the id.  Time is counted in minutes (the code counts milliseconds;   *)
(* every quantity it uses is a whole number of minutes once setHours has   *)
(* zeroed the seconds).                                                    *)
(***************************************************************************)
EXTENDS Integers, Sequences, FiniteSets, TLC

VARIABLES
    store,    \* localStorage: key -> stored text
    pre,      \* localStorage as it was before the last operation
    lastOp,   \* the last operation: name, argument, environment, outcome
    now,      \* the instant new Date() returns, minutes since 2024-01-01T00:00Z
    tz,       \* the runtime's time zone: [std, dst], offsets in minutes
    calc,     \* the last call of a calculation: name, argument, result
    limit,    \* the number of records the run lets the storage hold
    tabs,     \* the save each open tab is in: what it has read, what it writes
    view      \* the state of the mounted WorkoutTracker component

vars == <<store, pre, lastOp, now, tz, calc, limit, tabs, view>>

----------------------------------------------------------------------------
(* Bounds of the model *)

\* the records the storage holds at most, under Spec, SpecKeyed and SpecMeals
MaxRecords == 1
MaxKeyedRecords == 2
MaxMealLogs == 3
\* the records the storage holds at most under SpecLegacy
MaxLegacyRecords == 2
\* the records the storage holds at most under SpecTabs
MaxTabRecords == 2
\* the calls of saveWorkoutLog that have written the storage the lookups of
\* SpecPrevious run on, and the last day the logs are dated
MaxPreviousLogs == 2
LastLogDay == 2
\* the workout logs the storage holds at most under SpecTracker
MaxTrackerLogs == 1
\* the records the storage holds at most under SpecViews
MaxViewRecords == 1
\* the dates of SpecRotation lie within MaxDay days of 2024-01-01 or of the
\* start of summer time
MaxDay == 9
\* the days a collection has entries on, in the storage the stats are
\* called on
MaxLogged == 3
\* the last day such an entry is dated, in days since 2024-01-01
LastStatsDay == 8
\* the meal logs calculateTotalMacros is called with
MaxMealList == 3

(* Program constants *)

DefaultProteinTarget == 180
DefaultCalorieTarget == 2300
MinutesPerDay == 1440
CycleLength == 7

\* a time zone that keeps one offset from UTC all year
FixedZone(offset) == [std |-> offset, dst |-> 0]

Dates == {0, 1}
Ids == {1, 2}
EntryTypes == {"Push", "Rest"}
LogTypes == {"Push", "Pull"}
TemplateIds == {"breakfast-egg-protocol"}
ProteinTargets == {DefaultProteinTarget, 150}

WorkoutEntries == [id : Ids, date : Dates, type : EntryTypes]
WorkoutLogs == [id : Ids, date : Dates, type : LogTypes]
NutritionEntries == [id : Ids, date : Dates]
WeightEntries == [id : Ids, date : Dates]
MealLogEntries == [id : Ids, date : Dates, templateId : TemplateIds]
NutritionSettingsValues == [dailyProteinTarget : ProteinTargets]
NutritionTargetsValues ==
    {[protein |-> DefaultProteinTarget, calories |-> DefaultCalorieTarget],
     [protein |-> 150, calories |-> 2000]}

----------------------------------------------------------------------------
(* Storage keys and documents *)

STORAGE_KEY == "protocol_fitness_data"
WORKOUT_LOGS_KEY == "protocol_workout_logs"
MEAL_LOGS_KEY == "protocol_meal_logs"
NUTRITION_TARGETS_KEY == "protocol_nutrition_targets"

Keys == {STORAGE_KEY, WORKOUT_LOGS_KEY, MEAL_LOGS_KEY, NUTRITION_TARGETS_KEY}

DEFAULT_NUTRITION_SETTINGS == [dailyProteinTarget |-> DefaultProteinTarget]

DEFAULT_NUTRITION_TARGETS ==
    [protein |-> DefaultProteinTarget, calories |-> DefaultCalorieTarget]

\* getItem of a key that was never set returns null
Absent == [kind |-> "absent", val |-> <<>>]

\* a stored text JSON.parse throws on
Corrupt == [kind |-> "corrupt", val |-> <<>>]

\* JSON.stringify(v): a text that parses back to v
Stringify(v) == [kind |-> "json", val |-> v]

\* the environment of one call: "ok", "quota" (setItem throws, getItem works)
\* or "denied" (storage access throws, on getItem and on setItem alike)
Envs == {"ok", "quota", "denied"}

----------------------------------------------------------------------------
(* Core storage operations.  A load returns [raised, value]; a save returns *)
(* [raised, store], the storage it leaves behind.                           *)

\* faulty variant: the load without its try/catch, so that a failing getItem
\* or JSON.parse reaches the caller
LoadUncaught(s, key, env, default) ==
    [raised |-> env = "denied" \/ s[key].kind = "corrupt",
     value  |-> IF env # "denied" /\ s[key].kind = "json"
                THEN s[key].val
                ELSE default]

\* try { data = localStorage.getItem(key); if (data) return JSON.parse(data) }
\* catch { console.error } ; return the default
LoadOrDefault(s, key, env, default) ==
    [raised |-> FALSE,
     value  |-> IF env # "denied" /\ s[key].kind = "json"
                THEN s[key].val
                ELSE default]

\* faulty variant: a failed write is answered by removing the key
TrySetItemClearing(s, key, v, env) ==
    [raised |-> FALSE,
     store  |-> IF env = "ok"
                THEN [s EXCEPT ![key] = Stringify(v)]
                ELSE [s EXCEPT ![key] = Absent]]

\* try { localStorage.setItem(key, JSON.stringify(v)) } catch { console.error }
TrySetItem(s, key, v, env) ==
    [raised |-> FALSE,
     store  |-> IF env = "ok" THEN [s EXCEPT ![key] = Stringify(v)] ELSE s]

DefaultAppData ==
    [workouts |-> <<>>, nutrition |-> <<>>, weights |-> <<>>,
     nutritionSettings |-> DEFAULT_NUTRITION_SETTINGS]

getAppData(s, env) == LoadOrDefault(s, STORAGE_KEY, env, DefaultAppData)

saveAppData(s, data, env) == TrySetItem(s, STORAGE_KEY, data, env)

getWorkoutLogs(s, env) == LoadOrDefault(s, WORKOUT_LOGS_KEY, env, <<>>)

getMealLogs(s, env) == LoadOrDefault(s, MEAL_LOGS_KEY, env, <<>>)

getNutritionTargets(s, env) ==
    LoadOrDefault(s, NUTRITION_TARGETS_KEY, env, DEFAULT_NUTRITION_TARGETS)

----------------------------------------------------------------------------
(* Array helpers *)

\* Array.prototype.findIndex, given the indices whose element satisfies the
\* test: the first of them, 0 when there is none (JavaScript's -1; indices
\* here start at 1)
FindIndex(hits) ==
    IF hits = {} THEN 0 ELSE CHOOSE i \in hits : \A j \in hits : i <= j

\* faulty variant: the found index is ignored and the record always pushed
PushAlways(seq, existingIndex, rec) == Append(seq, rec)

\* if (existingIndex >= 0) a[existingIndex] = rec; else a.push(rec)
ReplaceOrPush(seq, existingIndex, rec) ==
    IF existingIndex > 0
    THEN [seq EXCEPT ![existingIndex] = rec]
    ELSE Append(seq, rec)

----------------------------------------------------------------------------
(* Keyed saves *)

saveWorkout(s, workout, env) ==
    LET data == getAppData(s, env).value
        existingIndex == FindIndex({i \in DOMAIN data.workouts :
                            /\ data.workouts[i].date = workout.date
                            /\ data.workouts[i].type = workout.type})
    IN  saveAppData(s,
            [data EXCEPT !.workouts = ReplaceOrPush(@, existingIndex, workout)],
            env)

\* faulty variant: the log is pushed without looking for an existing one
saveWorkoutLogNoLookup(s, log, env) ==
    LET logs == getWorkoutLogs(s, env).value
    IN  TrySetItem(s, WORKOUT_LOGS_KEY, Append(logs, log), env)

saveWorkoutLog(s, log, env) ==
    LET logs == getWorkoutLogs(s, env).value
        existingIndex == FindIndex({i \in DOMAIN logs :
                            logs[i].date = log.date /\ logs[i].type = log.type})
    IN  TrySetItem(s, WORKOUT_LOGS_KEY, ReplaceOrPush(logs, existingIndex, log), env)

\* faulty variant: the entry of the date is removed and the new one pushed,
\* which moves it to the end
saveNutritionMoveToEnd(s, nutrition, env) ==
    LET data == getAppData(s, env).value
        rest == SelectSeq(data.nutrition, LAMBDA n : n.date # nutrition.date)
    IN  saveAppData(s, [data EXCEPT !.nutrition = Append(rest, nutrition)], env)

saveNutrition(s, nutrition, env) ==
    LET data == getAppData(s, env).value
        existingIndex == FindIndex({i \in DOMAIN data.nutrition :
                            data.nutrition[i].date = nutrition.date})
    IN  saveAppData(s,
            [data EXCEPT !.nutrition = ReplaceOrPush(@, existingIndex, nutrition)],
            env)

\* faulty variant: the document is written back with the default settings
saveWeightDefaultSettings(s, weight, env) ==
    LET data == getAppData(s, env).value
        existingIndex == FindIndex({i \in DOMAIN data.weights :
                            data.weights[i].date = weight.date})
    IN  saveAppData(s,
            [data EXCEPT !.weights = ReplaceOrPush(@, existingIndex, weight),
                         !.nutritionSettings = DEFAULT_NUTRITION_SETTINGS],
            env)

saveWeight(s, weight, env) ==
    LET data == getAppData(s, env).value
        existingIndex == FindIndex({i \in DOMAIN data.weights :
                            data.weights[i].date = weight.date})
    IN  saveAppData(s,
            [data EXCEPT !.weights = ReplaceOrPush(@, existingIndex, weight)],
            env)

\* faulty variant: the settings are written into a fresh document
updateNutritionSettingsFresh(s, settings, env) ==
    saveAppData(s, [DefaultAppData EXCEPT !.nutritionSettings = settings], env)

updateNutritionSettings(s, settings, env) ==
    LET data == getAppData(s, env).value
    IN  saveAppData(s, [data EXCEPT !.nutritionSettings = settings], env)

----------------------------------------------------------------------------
(* Meal logs and nutrition targets *)

\* faulty variant: a meal log replaces the stored log of the same id
saveMealLogUpsertById(s, log, env) ==
    LET logs == getMealLogs(s, env).value
        existingIndex == FindIndex({i \in DOMAIN logs : logs[i].id = log.id})
    IN  TrySetItem(s, MEAL_LOGS_KEY, ReplaceOrPush(logs, existingIndex, log), env)

saveMealLog(s, log, env) ==
    LET logs == getMealLogs(s, env).value
    IN  TrySetItem(s, MEAL_LOGS_KEY, Append(logs, log), env)

\* faulty variant: the filter's test is inverted (=== for !==)
deleteMealLogInverted(s, logId, env) ==
    LET logs == getMealLogs(s, env).value
        filtered == SelectSeq(logs, LAMBDA l : l.id = logId)
    IN  TrySetItem(s, MEAL_LOGS_KEY, filtered, env)

\* faulty variant: only the first record of the id is removed (splice at
\* findIndex)
deleteMealLogFirstOnly(s, logId, env) ==
    LET logs == getMealLogs(s, env).value
        first == FindIndex({i \in DOMAIN logs : logs[i].id = logId})
        filtered == IF first = 0 THEN logs
                    ELSE SubSeq(logs, 1, first - 1) \o SubSeq(logs, first + 1, Len(logs))
    IN  TrySetItem(s, MEAL_LOGS_KEY, filtered, env)

deleteMealLog(s, logId, env) ==
    LET logs == getMealLogs(s, env).value
        filtered == SelectSeq(logs, LAMBDA l : l.id # logId)
    IN  TrySetItem(s, MEAL_LOGS_KEY, filtered, env)

saveNutritionTargets(s, targets, env) ==
    TrySetItem(s, NUTRITION_TARGETS_KEY, targets, env)

----------------------------------------------------------------------------
(* The state machine of the persistence layer *)

\* what lastOp records of a call: ok says whether the storage access the call
\* ends with succeeded (the setItem of a save, the getItem of a load)
Op(name, arg, ok, raised, result) ==
    [name |-> name, arg |-> arg, ok |-> ok, raised |-> raised, result |-> result]

NoCalc == [name |-> "none", arg |-> 0, argAfter |-> 0, result |-> "none"]

\* no tab is in a save
NoTabs == <<>>

\* no WorkoutTracker is mounted; crashed: the last render has thrown
NoView ==
    [mounted |-> FALSE, crashed |-> FALSE, selectedType |-> "none",
     exercises |-> <<>>, isSaved |-> FALSE]

EmptyStore == [k \in Keys |-> Absent]

\* the number of records the stored documents hold
TotalRecords(s) ==
    LET data == getAppData(s, "ok").value
    IN  Len(data.workouts) + Len(data.nutrition) + Len(data.weights)
        + Len(getWorkoutLogs(s, "ok").value) + Len(getMealLogs(s, "ok").value)

\* one call of a mutating operation that leaves r = [raised, store]
Mutate(name, arg, env, r) ==
    /\ TotalRecords(r.store) <= limit
    /\ store' = r.store
    /\ pre' = store
    /\ lastOp' = Op(name, arg, env = "ok", r.raised, <<>>)
    /\ UNCHANGED <<now, tz, calc, limit, tabs, view>>

\* one call of a load that returns r = [raised, value]
Load(name, env, r) ==
    /\ lastOp' = Op(name, <<>>, env # "denied", r.raised, r.value)
    /\ pre' = store
    /\ UNCHANGED <<store, now, tz, calc, limit, tabs, view>>

\* the storage of a fresh origin, in a run that holds at most n records
InitStorage(n) ==
    /\ store = EmptyStore
    /\ pre = EmptyStore
    /\ lastOp = Op("init", <<>>, TRUE, FALSE, <<>>)
    /\ now = 0
    /\ tz = FixedZone(0)
    /\ calc = NoCalc
    /\ limit = n
    /\ tabs = NoTabs
    /\ view = NoView

Init == InitStorage(MaxRecords)

SaveWorkout ==
    \E workout \in WorkoutEntries, env \in Envs :
        Mutate("saveWorkout", workout, env, saveWorkout(store, workout, env))

SaveWorkoutLog ==
    \E log \in WorkoutLogs, env \in Envs :
        Mutate("saveWorkoutLog", log, env, saveWorkoutLog(store, log, env))

SaveNutrition ==
    \E nutrition \in NutritionEntries, env \in Envs :
        Mutate("saveNutrition", nutrition, env, saveNutrition(store, nutrition, env))

SaveWeight ==
    \E weight \in WeightEntries, env \in Envs :
        Mutate("saveWeight", weight, env, saveWeight(store, weight, env))

UpdateNutritionSettings ==
    \E settings \in NutritionSettingsValues, env \in Envs :
        Mutate("updateNutritionSettings", settings, env,
               updateNutritionSettings(store, settings, env))

SaveMealLog ==
    \E log \in MealLogEntries, env \in Envs :
        Mutate("saveMealLog", log, env, saveMealLog(store, log, env))

DeleteMealLog ==
    \E logId \in Ids, env \in Envs :
        Mutate("deleteMealLog", logId, env, deleteMealLog(store, logId, env))

SaveNutritionTargets ==
    \E targets \in NutritionTargetsValues, env \in Envs :
        Mutate("saveNutritionTargets", targets, env,
               saveNutritionTargets(store, targets, env))

GetAppData ==
    \E env \in Envs : Load("getAppData", env, getAppData(store, env))

GetWorkoutLogs ==
    \E env \in Envs : Load("getWorkoutLogs", env, getWorkoutLogs(store, env))

GetMealLogs ==
    \E env \in Envs : Load("getMealLogs", env, getMealLogs(store, env))

GetNutritionTargets ==
    \E env \in Envs : Load("getNutritionTargets", env, getNutritionTargets(store, env))

\* the stored text of a key is replaced from outside the program (another
\* script of the origin, the developer tools) by a text that does not parse
ExternalEdit ==
    \E key \in Keys :
        /\ store[key] # Corrupt
        /\ store' = [store EXCEPT ![key] = Corrupt]
        /\ pre' = store
        /\ lastOp' = Op("externalEdit", key, TRUE, FALSE, <<>>)
        /\ UNCHANGED <<now, tz, calc, limit, tabs, view>>

(* Every mutating operation, from the empty storage *)
Next ==
    \/ SaveWorkout
    \/ SaveWorkoutLog
    \/ SaveNutrition
    \/ SaveWeight
    \/ UpdateNutritionSettings
    \/ SaveMealLog
    \/ DeleteMealLog
    \/ SaveNutritionTargets

Spec == Init /\ [][Next]_vars

(* The four keyed saves *)
InitKeyed == InitStorage(MaxKeyedRecords)

NextKeyed ==
    \/ SaveWorkout
    \/ SaveWorkoutLog
    \/ SaveNutrition
    \/ SaveWeight

SpecKeyed == InitKeyed /\ [][NextKeyed]_vars

(* The meal-log document *)
InitMeals == InitStorage(MaxMealLogs)

NextMeals ==
    \/ SaveMealLog
    \/ DeleteMealLog

SpecMeals == InitMeals /\ [][NextMeals]_vars

(* The legacy saves of the app-data document *)
InitLegacy == InitStorage(MaxLegacyRecords)

NextLegacy ==
    \/ SaveWorkout
    \/ SaveNutrition
    \/ SaveWeight
    \/ UpdateNutritionSettings

SpecLegacy == InitLegacy /\ [][NextLegacy]_vars

(* Two tabs of the origin.  A save is synchronous within its tab, but the  *)
(* tabs run side by side on one localStorage: the getItem and the setItem  *)
(* of a save are two steps, and the other tab may take steps between them. *)
(* Each tab runs one save.                                                 *)

Tabs == {1, 2}

TabSaves == {"saveWorkout", "saveNutrition", "saveMealLog"}

\* the arguments a tab calls a save with
ArgsOf(op) ==
    CASE op = "saveWorkout" -> WorkoutEntries
      [] op = "saveNutrition" -> NutritionEntries
      [] op = "saveMealLog" -> MealLogEntries

\* the key of the document a save reads and writes
DocumentOf(op) == IF op = "saveMealLog" THEN MEAL_LOGS_KEY ELSE STORAGE_KEY

ApplySave(op, s, arg, env) ==
    CASE op = "saveWorkout" -> saveWorkout(s, arg, env)
      [] op = "saveNutrition" -> saveNutrition(s, arg, env)
      [] op = "saveMealLog" -> saveMealLog(s, arg, env)

IdleTab == [pc |-> "idle", op |-> "none", arg |-> <<>>, text |-> Absent]

\* faulty variant: the save works on the document as it is stored when it
\* writes, not on the text it has read
SnapshotReread(tab, s) == s

\* the storage as the save of a tab sees it: the document is the text its
\* getItem has returned
SnapshotOf(tab, s) == [s EXCEPT ![DocumentOf(tab.op)] = tab.text]

InitTabs ==
    /\ store = EmptyStore
    /\ pre = EmptyStore
    /\ lastOp = Op("init", <<>>, TRUE, FALSE, <<>>)
    /\ now = 0
    /\ tz = FixedZone(0)
    /\ calc = NoCalc
    /\ limit = MaxTabRecords
    /\ tabs = [t \in Tabs |-> IdleTab]
    /\ view = NoView

\* a tab calls a save, which reads its document (getItem, JSON.parse)
TabRead ==
    \E t \in Tabs, op \in TabSaves :
        \E arg \in ArgsOf(op) :
            /\ tabs[t].pc = "idle"
            /\ tabs' = [tabs EXCEPT ![t] = [pc |-> "read", op |-> op, arg |-> arg,
                                            text |-> store[DocumentOf(op)]]]
            /\ UNCHANGED <<store, pre, lastOp, now, tz, calc, limit, view>>

\* the save of a tab writes the document it has built from what it read
\* (JSON.stringify, setItem) and returns
TabWrite ==
    \E t \in Tabs :
        LET tab == tabs[t]
            key == DocumentOf(tab.op)
            r == ApplySave(tab.op, SnapshotOf(tab, store), tab.arg, "ok")
        IN  /\ tab.pc = "read"
            /\ TotalRecords([store EXCEPT ![key] = r.store[key]]) <= limit
            /\ store' = [store EXCEPT ![key] = r.store[key]]
            /\ pre' = store
            /\ lastOp' = Op(tab.op, tab.arg, TRUE, r.raised, <<>>)
            /\ tabs' = [tabs EXCEPT ![t].pc = "done"]
            /\ UNCHANGED <<now, tz, calc, limit, view>>

NextTabs ==
    \/ TabRead
    \/ TabWrite

SpecTabs == InitTabs /\ [][NextTabs]_vars

(* The loads, over storage the saves have written and storage edited from *)
(* outside                                                                 *)
SampleStore ==
    LET s1 == saveWorkout(EmptyStore, [id |-> 1, date |-> 0, type |-> "Push"], "ok").store
        s2 == saveWeight(s1, [id |-> 2, date |-> 1], "ok").store
        s3 == saveWorkoutLog(s2, [id |-> 1, date |-> 0, type |-> "Pull"], "ok").store
        s4 == saveMealLog(s3, [id |-> 1, date |-> 0,
                               templateId |-> "breakfast-egg-protocol"], "ok").store
    IN  saveNutritionTargets(s4, [protein |-> 150, calories |-> 2000], "ok").store

InitLoad ==
    /\ store \in {EmptyStore, SampleStore}
    /\ pre = store
    /\ lastOp = Op("init", <<>>, TRUE, FALSE, <<>>)
    /\ now = 0
    /\ tz = FixedZone(0)
    /\ calc = NoCalc
    /\ limit = MaxRecords
    /\ tabs = NoTabs
    /\ view = NoView

NextLoad ==
    \/ GetAppData
    \/ GetWorkoutLogs
    \/ GetMealLogs
    \/ GetNutritionTargets
    \/ ExternalEdit

SpecLoad == InitLoad /\ [][NextLoad]_vars

----------------------------------------------------------------------------
(* Dates.  A Date is an instant, in minutes since 2024-01-01T00:00Z; the    *)
(* runtime shows it in the local time of its time zone.  A zone is its      *)
(* standard offset from UTC and the minutes it adds in summer time (0 in a  *)
(* zone that keeps one offset all year).                                    *)

\* new Date('2024-01-01'): a date-only ISO string is parsed as UTC midnight
ReferenceDate == 0

\* summer time of 2024 in the zones that have it (the rule of Europe):
\* from 2024-03-31T01:00Z until 2024-10-27T01:00Z
SummerTimeStart == 129660
SummerTimeEnd == 432060

EuropeLondon == [std |-> 0, dst |-> 60]

\* -getTimezoneOffset() of a Date: the zone's offset at that instant
OffsetAt(t, zone) ==
    IF zone.dst # 0 /\ t >= SummerTimeStart /\ t < SummerTimeEnd
    THEN zone.std + zone.dst
    ELSE zone.std

\* the instant at which the zone's clocks show the local time l
LocalToInstant(l, zone) ==
    LET summer == l - (zone.std + zone.dst)
    IN  IF OffsetAt(summer, zone) = zone.std + zone.dst
        THEN summer
        ELSE l - zone.std

\* the local calendar day of an instant, in whole days since 2024-01-01
LocalDay(t, zone) == (t + OffsetAt(t, zone)) \div MinutesPerDay

\* Date.prototype.setHours(0, 0, 0, 0): midnight of the local calendar day
SetHoursZero(t, zone) == LocalToInstant(LocalDay(t, zone) * MinutesPerDay, zone)

\* JavaScript's %: the remainder takes the sign of the dividend
JsRem(a, b) == IF a >= 0 THEN a % b ELSE -((-a) % b)

\* a[i] of a JavaScript array (indices from 0): undefined out of range
ArrayGet(a, i) == IF i + 1 \in DOMAIN a THEN a[i + 1] ELSE "undefined"

\* types/index.ts
WORKOUT_ROTATION == <<"Push", "Pull", "Legs", "Rest">>

\* types/templates.ts
WEEKLY_ROTATION == <<"Push", "Pull", "Legs", "Push", "Pull", "Legs", "Rest">>

\* the body shared by getTodayWorkoutType (date = new Date()) and
\* getWorkoutTypeForDate: [date, result], date being the Date after the call
RotationOf(date, zone) ==
    LET midnight == SetHoursZero(date, zone)
        diffTime == midnight - ReferenceDate
        diffDays == diffTime \div MinutesPerDay
        rotationIndex == (JsRem(diffDays, CycleLength) + CycleLength) % CycleLength
    IN  [date |-> midnight, result |-> ArrayGet(WORKOUT_ROTATION, rotationIndex)]

getTodayWorkoutType(t, zone) == RotationOf(t, zone).result

getWorkoutTypeForDate(date, zone) == RotationOf(date, zone)

TimesOfDay == {0, 330, 1439}
\* the day summer time starts, 2024-03-31, in days since 2024-01-01
SummerTimeDay == 90
\* the days around the reference date and around the start of summer time
Days == ((-MaxDay)..MaxDay) \cup ((SummerTimeDay - MaxDay)..(SummerTimeDay + MaxDay))
Instants == {d * MinutesPerDay + m : d \in Days, m \in TimesOfDay}
Offsets == {-480, 0, 330}
Zones == {FixedZone(o) : o \in Offsets} \cup {EuropeLondon}

InitRotation ==
    /\ store = EmptyStore
    /\ pre = EmptyStore
    /\ lastOp = Op("init", <<>>, TRUE, FALSE, <<>>)
    /\ now \in Instants
    /\ tz \in Zones
    /\ calc = NoCalc
    /\ limit = MaxRecords
    /\ tabs = NoTabs
    /\ view = NoView

GetTodayWorkoutType ==
    /\ calc' = [name |-> "getTodayWorkoutType", arg |-> now, argAfter |-> now,
                result |-> getTodayWorkoutType(now, tz)]
    /\ UNCHANGED <<store, pre, lastOp, now, tz, limit, tabs, view>>

GetWorkoutTypeForDate ==
    \E date \in Instants :
        LET r == getWorkoutTypeForDate(date, tz)
        IN  /\ calc' = [name |-> "getWorkoutTypeForDate", arg |-> date,
                        argAfter |-> r.date, result |-> r.result]
            /\ UNCHANGED <<store, pre, lastOp, now, tz, limit, tabs, view>>

NextRotation ==
    \/ GetTodayWorkoutType
    \/ GetWorkoutTypeForDate

SpecRotation == InitRotation /\ [][NextRotation]_vars

----------------------------------------------------------------------------
(* Stats and analytics (utils/storage.ts).  A date string 'YYYY-MM-DD' is   *)
(* the number of its day, counted from 2024-01-01; equal strings are equal  *)
(* numbers and the order of the strings is the order of the numbers.        *)

\* date.toISOString().split('T')[0]: the UTC calendar day of an instant
ToISODate(t) == t \div MinutesPerDay

\* getTodayDate() at the instant t: new Date().toISOString().split('T')[0]
getTodayDate(t) == ToISODate(t)

\* new Date('YYYY-MM-DD'): UTC midnight of that day
ParseDate(d) == d * MinutesPerDay

\* date.setDate(date.getDate() - i): the same local time, i local days back
SetDateBack(t, i, zone) ==
    LocalToInstant(t + OffsetAt(t, zone) - i * MinutesPerDay, zone)

\* new Set(entries.map((e) => e.date))
DateSet(entries) == {entries[i].date : i \in DOMAIN entries}

\* the bound of the loop of calculateStreak
StreakCap == 365

\* the date string the loop of calculateStreak looks up at step i
CheckDate(today, zone, i) == ToISODate(SetDateBack(today, i, zone))

\* the step at which the loop of calculateStreak ends: the first step
\* i > 0 whose date is not in allDates (break), StreakCap if there is none
LastStep(allDates, today, zone) ==
    IF \E i \in 1..(StreakCap - 1) : CheckDate(today, zone, i) \notin allDates
    THEN CHOOSE i \in 1..(StreakCap - 1) :
            /\ CheckDate(today, zone, i) \notin allDates
            /\ \A j \in 1..(i - 1) : CheckDate(today, zone, j) \in allDates
    ELSE StreakCap

\* calculateStreak() at the instant t: [streak, examined], streak being the
\* steps before the loop ends that found their date (streak++) and examined
\* the date strings the loop has looked up
calculateStreak(s, env, t, zone) ==
    LET data == getAppData(s, env).value
        allDates == DateSet(data.workouts) \cup DateSet(data.nutrition)
        today == SetHoursZero(t, zone)
        last == LastStep(allDates, today, zone)
        steps == {i \in 0..(StreakCap - 1) : i <= last}
    IN  IF allDates = {}
        THEN [streak |-> 0, examined |-> {}]
        ELSE [streak |-> Cardinality({i \in steps :
                                        CheckDate(today, zone, i) \in allDates}),
              examined |-> {CheckDate(today, zone, i) : i \in steps}]

\* the days getWeeklyCompletion and the weekly filters cover
WeekDays == 7

\* getWeeklyCompletion(): result[k] is pushed at i = WeekDays - k
\* faulty variant: the dates of the workout logs count as well, as they do
\* in getCurrentMonthCalendar
getWeeklyCompletionWithLogs(s, env, t, zone) ==
    LET workoutDates == DateSet(getAppData(s, env).value.workouts)
                            \cup DateSet(getWorkoutLogs(s, env).value)
        today == SetHoursZero(t, zone)
    IN  [k \in 1..WeekDays |->
            ToISODate(SetDateBack(today, WeekDays - k, zone)) \in workoutDates]

getWeeklyCompletion(s, env, t, zone) ==
    LET workoutDates == DateSet(getAppData(s, env).value.workouts)
        today == SetHoursZero(t, zone)
    IN  [k \in 1..WeekDays |->
            ToISODate(SetDateBack(today, WeekDays - k, zone)) \in workoutDates]

\* the filter shared by getWeeklyStats, getMealLogsForDays and
\* calculateWeeklyAverage: the entries e with
\* start <= new Date(e.date) <= today, start being days - 1 days before today
EntriesOfLastDays(entries, days, t, zone) ==
    LET today == SetHoursZero(t, zone)
        startDate == SetDateBack(today, days - 1, zone)
    IN  SelectSeq(entries, LAMBDA e : /\ ParseDate(e.date) >= startDate
                                      /\ ParseDate(e.date) <= today)

\* getWeeklyStats(); avgWeight is the mean of weekWeights, kept here as the
\* entries it is taken over
getWeeklyStats(s, env, t, zone) ==
    LET data == getAppData(s, env).value
        weekWorkouts == EntriesOfLastDays(data.workouts, WeekDays, t, zone)
        weekNutrition == EntriesOfLastDays(data.nutrition, WeekDays, t, zone)
        weekWeights == EntriesOfLastDays(data.weights, WeekDays, t, zone)
    IN  [workoutsCompleted |-> Len(weekWorkouts),
         nutritionEntries |-> weekNutrition,
         weekWeights |-> weekWeights,
         totalSessions |-> Len(weekWorkouts)]

getMealLogsForDays(s, env, days, t, zone) ==
    EntriesOfLastDays(getMealLogs(s, env).value, days, t, zone)

(* The stats, called on storage the saves have written.  The entries are   *)
(* dated within the days 0..LastStatsDay, the calls are made on the day     *)
(* StatsToday (UTC), at every time of day and in every zone.                *)

StatsToday == 7
StatsDays == 0..LastStatsDay

\* the least day of a non-empty set of days
FirstDay(days) == CHOOSE d \in days : \A e \in days : d <= e

\* the storage after a workout and a meal were saved on each day of W and a
\* nutrition entry and a weight on each day of N, in the order of the days
RECURSIVE LogDays(_, _, _)
LogDays(s, W, N) ==
    IF W # {}
    THEN LET d == FirstDay(W)
             s1 == saveWorkout(s, [id |-> d, date |-> d, type |-> "Push"], "ok").store
             s2 == saveMealLog(s1, [id |-> d, date |-> d,
                                    templateId |-> "breakfast-egg-protocol"], "ok").store
         IN  LogDays(s2, W \ {d}, N)
    ELSE IF N # {}
         THEN LET d == FirstDay(N)
                  s1 == saveNutrition(s, [id |-> d, date |-> d], "ok").store
                  s2 == saveWeight(s1, [id |-> d, date |-> d], "ok").store
              IN  LogDays(s2, W, N \ {d})
         ELSE s

\* the storage after a workout was saved on each of the days
\* StatsToday - 2 - StreakCap .. LastStatsDay (more than StreakCap days in a
\* row) but the day skipped, in the order of the days: what LogDays gives,
\* written out
LongRunStore(skipped) ==
    LET first == StatsToday - 2 - StreakCap
        days == [i \in 1..(LastStatsDay - first + 1) |-> first + i - 1]
        logged == SelectSeq(days, LAMBDA d : d # skipped)
        workouts == [i \in DOMAIN logged |->
                        [id |-> logged[i], date |-> logged[i], type |-> "Push"]]
    IN  [EmptyStore EXCEPT ![STORAGE_KEY] =
            Stringify([DefaultAppData EXCEPT !.workouts = workouts])]

StatsStores ==
    {LogDays(EmptyStore, W, N) :
        W \in {D \in SUBSET StatsDays : Cardinality(D) <= MaxLogged},
        N \in {D \in SUBSET StatsDays : Cardinality(D) <= 1}}
    \cup {LongRunStore(LastStatsDay + 1), LongRunStore(StatsToday)}

StatsInstants == {StatsToday * MinutesPerDay + m : m \in TimesOfDay}

\* the lookbacks getMealLogsForDays is called with
Lookbacks == {1, WeekDays}

InitStats ==
    /\ store \in StatsStores
    /\ pre = store
    /\ lastOp = Op("init", <<>>, TRUE, FALSE, <<>>)
    /\ now \in StatsInstants
    /\ tz \in Zones
    /\ calc = NoCalc
    /\ limit = MaxRecords
    /\ tabs = NoTabs
    /\ view = NoView

\* one call of a stats function: its storage reads run under env
Stat(name, env, days, result) ==
    /\ calc' = [name |-> name, arg |-> [env |-> env, days |-> days],
                argAfter |-> [env |-> env, days |-> days], result |-> result]
    /\ UNCHANGED <<store, pre, lastOp, now, tz, limit, tabs, view>>

CalculateStreak ==
    \E env \in Envs :
        Stat("calculateStreak", env, StreakCap, calculateStreak(store, env, now, tz))

GetWeeklyCompletion ==
    \E env \in Envs :
        Stat("getWeeklyCompletion", env, WeekDays,
             getWeeklyCompletion(store, env, now, tz))

GetWeeklyStats ==
    \E env \in Envs :
        Stat("getWeeklyStats", env, WeekDays, getWeeklyStats(store, env, now, tz))

GetMealLogsForDays ==
    \E env \in Envs, days \in Lookbacks :
        Stat("getMealLogsForDays", env, days,
             getMealLogsForDays(store, env, days, now, tz))

NextStats ==
    \/ CalculateStreak
    \/ GetWeeklyCompletion
    \/ GetWeeklyStats
    \/ GetMealLogsForDays

SpecStats == InitStats /\ [][NextStats]_vars

----------------------------------------------------------------------------
(* A workout saved for today, and the stats called right after it *)

\* storage without entries and storage with a workout and a meal of the day
\* before the calls
TodayStores == {EmptyStore, LogDays(EmptyStore, {StatsToday - 1}, {})}

InitToday ==
    /\ store \in TodayStores
    /\ pre = store
    /\ lastOp = Op("init", <<>>, TRUE, FALSE, <<>>)
    /\ now \in StatsInstants
    /\ tz \in Zones
    /\ calc = NoCalc
    /\ limit = MaxLogged
    /\ tabs = NoTabs
    /\ view = NoView

\* saveWorkout({ date: getTodayDate(), ... }); what the stats returned
\* before the save is out of date
SaveTodaysWorkout ==
    \E id \in Ids, type \in EntryTypes, env \in Envs :
        LET workout == [id |-> id, date |-> getTodayDate(now), type |-> type]
            r == saveWorkout(store, workout, env)
        IN  /\ TotalRecords(r.store) <= limit
            /\ store' = r.store
            /\ pre' = store
            /\ lastOp' = Op("saveWorkout", workout, env = "ok", r.raised, <<>>)
            /\ calc' = NoCalc
            /\ UNCHANGED <<now, tz, limit, tabs, view>>

NextToday ==
    \/ SaveTodaysWorkout
    \/ CalculateStreak
    \/ GetWeeklyCompletion
    \/ GetWeeklyStats

SpecToday == InitToday /\ [][NextToday]_vars

----------------------------------------------------------------------------
(* The month calendar (utils/storage.ts) *)

\* 5.5 * 60 * 60 * 1000 ms
IstOffset == 330

\* the first days of the months December 2023 .. May 2024, in days since
\* 2024-01-01: what new Date(year, month, 1) and new Date(year, month + 1, 0)
\* give for the months the model's instants lie in
MonthStarts == <<-31, 0, 31, 60, 91, 121>>

\* getFullYear() and getMonth() of a local calendar day, as the position of
\* its month in MonthStarts
MonthOf(day) ==
    CHOOSE m \in 1..(Len(MonthStarts) - 1) :
        MonthStarts[m] <= day /\ day < MonthStarts[m + 1]

\* getIndianDate() at the instant t: the Date of
\* now.getTime() + now.getTimezoneOffset() * 60 * 1000 + istOffset
getIndianDate(t, zone) == t - OffsetAt(t, zone) + IstOffset

\* getTodayDateIST() at the instant t
getTodayDateIST(t, zone) == ToISODate(getIndianDate(t, zone))

\* getCurrentMonthCalendar() at the instant t; year and monthName are the
\* month's position in MonthStarts
getCurrentMonthCalendar(s, env, t, zone) ==
    LET data == getAppData(s, env).value
        workoutLogs == getWorkoutLogs(s, env).value
        workoutDates == DateSet(data.workouts) \cup DateSet(workoutLogs)
        todayIST == getIndianDate(t, zone)
        todayStr == getTodayDateIST(t, zone)
        month == MonthOf(LocalDay(todayIST, zone))
        firstDay == MonthStarts[month]
        daysInMonth == MonthStarts[month + 1] - firstDay
        \* 2024-01-01 is a Monday
        firstDayOfWeek == firstDay % 7
    IN  [month |-> month,
         days |-> [day \in 1..daysInMonth |->
                    LET dateStr == firstDay + day - 1
                    IN  [date |-> dateStr,
                         dayOfMonth |-> day,
                         completed |-> dateStr \in workoutDates,
                         isToday |-> dateStr = todayStr,
                         isFuture |-> dateStr > todayStr]],
         startDayOffset |-> firstDayOfWeek]

(* The calendar, called around the middle and the ends of months *)

\* 2024-01-15, 2024-01-31, 2024-02-01, 2024-03-31
CalendarDays == {14, 30, 31, 90}
CalendarTimes == TimesOfDay \cup {720}
CalendarInstants == {d * MinutesPerDay + m : d \in CalendarDays, m \in CalendarTimes}

\* storage with a workout on 2024-01-15 and a workout log on 2024-01-31
CalendarStore ==
    LET s1 == saveWorkout(EmptyStore, [id |-> 1, date |-> 14, type |-> "Push"], "ok").store
    IN  saveWorkoutLog(s1, [id |-> 2, date |-> 30, type |-> "Pull"], "ok").store

InitCalendar ==
    /\ store \in {EmptyStore, CalendarStore}
    /\ pre = store
    /\ lastOp = Op("init", <<>>, TRUE, FALSE, <<>>)
    /\ now \in CalendarInstants
    /\ tz \in Zones
    /\ calc = NoCalc
    /\ limit = MaxRecords
    /\ tabs = NoTabs
    /\ view = NoView

GetCurrentMonthCalendar ==
    \E env \in Envs :
        /\ calc' = [name |-> "getCurrentMonthCalendar", arg |-> [env |-> env],
                    argAfter |-> [env |-> env],
                    result |-> getCurrentMonthCalendar(store, env, now, tz)]
        /\ UNCHANGED <<store, pre, lastOp, now, tz, limit, tabs, view>>

NextCalendar ==
    \/ GetCurrentMonthCalendar

SpecCalendar == InitCalendar /\ [][NextCalendar]_vars

----------------------------------------------------------------------------
(* Workout templates (types/templates.ts) and the template-based workout   *)
(* logs (utils/storage.ts).  A template exercise is its id and its         *)
(* targetSets; its name goes with the id and the rep range is display      *)
(* only.  A value that may be undefined is [defined, value].               *)

Undefined == [defined |-> FALSE]
Some(v) == [defined |-> TRUE, value |-> v]

TrainingTypes == {"Push", "Pull", "Legs"}

WORKOUT_TEMPLATES ==
    [type \in TrainingTypes |->
        CASE type = "Push" ->
                <<[id |-> "push-1", targetSets |-> 4], [id |-> "push-2", targetSets |-> 3],
                  [id |-> "push-3", targetSets |-> 3], [id |-> "push-4", targetSets |-> 3],
                  [id |-> "push-5", targetSets |-> 3]>>
          [] type = "Pull" ->
                <<[id |-> "pull-1", targetSets |-> 4], [id |-> "pull-2", targetSets |-> 3],
                  [id |-> "pull-3", targetSets |-> 3], [id |-> "pull-4", targetSets |-> 3],
                  [id |-> "pull-5", targetSets |-> 3]>>
          [] type = "Legs" ->
                <<[id |-> "legs-1", targetSets |-> 4], [id |-> "legs-2", targetSets |-> 3],
                  [id |-> "legs-3", targetSets |-> 3], [id |-> "legs-4", targetSets |-> 3],
                  [id |-> "legs-5", targetSets |-> 4]>>]

\* { reps: 0, weight: 0 }
EmptySet == [weight |-> 0, reps |-> 0]

\* faulty variant: every exercise gets three sets
initializeExerciseLogsThreeSets(type) ==
    LET template == WORKOUT_TEMPLATES[type]
    IN  [i \in DOMAIN template |->
            [exerciseId |-> template[i].id, sets |-> [k \in 1..3 |-> EmptySet]]]

\* template.map(exercise => ({ exerciseId, name,
\*     sets: Array(exercise.targetSets).fill(null).map(() => ({reps: 0, weight: 0})) }))
initializeExerciseLogs(type) ==
    LET template == WORKOUT_TEMPLATES[type]
    IN  [i \in DOMAIN template |->
            [exerciseId |-> template[i].id,
             sets |-> [k \in 1..template[i].targetSets |-> EmptySet]]]

\* Array.prototype.find: the first element that satisfies the test
Find(seq, hits) == IF hits = {} THEN Undefined ELSE Some(seq[FindIndex(hits)])

getWorkoutLogByDateAndType(s, env, date, type) ==
    LET logs == getWorkoutLogs(s, env).value
    IN  Find(logs, {i \in DOMAIN logs : logs[i].date = date /\ logs[i].type = type})

\* logs.sort((a, b) => new Date(b.date).getTime() - new Date(a.date).getTime()):
\* the sort is stable, so logs of one date keep their order
SortByDateDescending(logs) ==
    LET Before(j, i) ==
            \/ ParseDate(logs[j].date) > ParseDate(logs[i].date)
            \/ ParseDate(logs[j].date) = ParseDate(logs[i].date) /\ j < i
        Rank(i) == Cardinality({j \in DOMAIN logs : Before(j, i)}) + 1
    IN  [k \in DOMAIN logs |-> logs[CHOOSE i \in DOMAIN logs : Rank(i) = k]]

\* faulty variant: the filter lets the log of beforeDate through (<= for <)
getPreviousWorkoutLogInclusive(s, env, type, beforeDate) ==
    LET logs == getWorkoutLogs(s, env).value
        filteredLogs == SortByDateDescending(
            SelectSeq(logs, LAMBDA l : l.type = type /\ l.date <= beforeDate))
    IN  IF filteredLogs = <<>> THEN Undefined ELSE Some(filteredLogs[1])

getPreviousWorkoutLog(s, env, type, beforeDate) ==
    LET logs == getWorkoutLogs(s, env).value
        filteredLogs == SortByDateDescending(
            SelectSeq(logs, LAMBDA l : l.type = type /\ l.date < beforeDate))
    IN  IF filteredLogs = <<>> THEN Undefined ELSE Some(filteredLogs[1])

getPreviousExerciseData(s, env, exerciseId, type, beforeDate) ==
    LET previousLog == getPreviousWorkoutLog(s, env, type, beforeDate)
    IN  IF ~previousLog.defined
        THEN Undefined
        ELSE LET exercises == previousLog.value.exercises
                 exercise == Find(exercises, {i \in DOMAIN exercises :
                                        exercises[i].exerciseId = exerciseId})
             IN  IF exercise.defined THEN Some(exercise.value.sets) ELSE Undefined

(* The previous-log lookups, over the logs saved on the days 0..LastLogDay *)

LogDates == 0..LastLogDay
StoredLogTypes == {"Push", "Pull"}

\* the log a save on the day date builds from the exercises of the type,
\* with the reps of the first set entered
LogOf(date, type) ==
    [id |-> date, date |-> date, type |-> type,
     exercises |-> [initializeExerciseLogs(type) EXCEPT ![1].sets[1].reps = date + 1]]

\* an exercise of the stored types and one of the type that is never stored
ExerciseIds == {"push-1", "pull-5", "legs-1"}

\* the storages that up to n calls of saveWorkoutLog leave behind
RECURSIVE StoresAfter(_)
StoresAfter(n) ==
    IF n = 0
    THEN {EmptyStore}
    ELSE LET earlier == StoresAfter(n - 1)
         IN  earlier \cup
             {saveWorkoutLog(s, LogOf(date, type), "ok").store :
                s \in earlier, date \in LogDates, type \in StoredLogTypes}

InitPrevious ==
    /\ store \in StoresAfter(MaxPreviousLogs)
    /\ pre = store
    /\ lastOp = Op("init", <<>>, TRUE, FALSE, <<>>)
    /\ now = 0
    /\ tz = FixedZone(0)
    /\ calc = NoCalc
    /\ limit = MaxPreviousLogs
    /\ tabs = NoTabs
    /\ view = NoView

\* one call of a lookup: its storage read runs under env
Lookup(name, arg, result) ==
    /\ calc' = [name |-> name, arg |-> arg, argAfter |-> arg, result |-> result]
    /\ UNCHANGED <<store, pre, lastOp, now, tz, limit, tabs, view>>

GetPreviousWorkoutLog ==
    \E env \in Envs, type \in TrainingTypes, beforeDate \in 0..(LastLogDay + 1) :
        Lookup("getPreviousWorkoutLog",
               [env |-> env, type |-> type, beforeDate |-> beforeDate],
               getPreviousWorkoutLog(store, env, type, beforeDate))

GetPreviousExerciseData ==
    \E env \in Envs, exerciseId \in ExerciseIds, type \in TrainingTypes,
       beforeDate \in 0..(LastLogDay + 1) :
        Lookup("getPreviousExerciseData",
               [env |-> env, type |-> type, beforeDate |-> beforeDate,
                exerciseId |-> exerciseId],
               getPreviousExerciseData(store, env, exerciseId, type, beforeDate))

NextPrevious ==
    \/ GetPreviousWorkoutLog
    \/ GetPreviousExerciseData

SpecPrevious == InitPrevious /\ [][NextPrevious]_vars

----------------------------------------------------------------------------
(* The WorkoutTracker component (components/WorkoutTracker.tsx): its React  *)
(* state selectedType, exercises and isSaved, its handlers, and the clock.  *)

\* loadWorkoutData(type) at the instant t; for a type without a template
\* initializeExerciseLogs throws (template is undefined)
loadWorkoutData(s, env, type, t) ==
    LET today == getTodayDate(t)
        existingLog == getWorkoutLogByDateAndType(s, env, today, type)
    IN  IF existingLog.defined
        THEN [raised |-> FALSE, exercises |-> existingLog.value.exercises, isSaved |-> TRUE]
        ELSE IF type \in TrainingTypes
             THEN [raised |-> FALSE, exercises |-> initializeExerciseLogs(type),
                   isSaved |-> FALSE]
             ELSE [raised |-> TRUE, exercises |-> <<>>, isSaved |-> FALSE]

\* todayType === 'Rest' ? 'Push' : todayType
initialTypeOf(todayType) == IF todayType = "Rest" THEN "Push" ELSE todayType

\* faulty variant: the new value is written into every set of the exercise
updateSetAllSets(exercises, exerciseIndex, setIndex, field, value) ==
    [exercises EXCEPT ![exerciseIndex + 1].sets =
        [idx \in DOMAIN @ |-> [@[idx] EXCEPT ![field] = value]]]

\* faulty variant: the set is appended to the exercise
updateSetAppending(exercises, exerciseIndex, setIndex, field, value) ==
    [exercises EXCEPT ![exerciseIndex + 1].sets =
        Append(@, [EmptySet EXCEPT ![field] = value])]

\* the exercises updateSet passes to setExercises (indices from 0)
updateSet(exercises, exerciseIndex, setIndex, field, value) ==
    [exercises EXCEPT ![exerciseIndex + 1].sets =
        [idx \in DOMAIN @ |->
            IF idx = setIndex + 1 THEN [@[idx] EXCEPT ![field] = value] ELSE @[idx]]]

\* exercises.some(ex => ex.sets.some(set => set.reps > 0 || set.weight > 0))
hasLoggedData(exercises) ==
    \E i \in DOMAIN exercises : \E k \in DOMAIN exercises[i].sets :
        exercises[i].sets[k].reps > 0 \/ exercises[i].sets[k].weight > 0

\* the instants the tracker is used at: 2024-01-01T23:00Z, 2024-01-02T00:30Z
\* (in a runtime ahead of UTC the same local day), 2024-01-04T00:30Z (a Rest
\* day) and 2024-01-05T00:30Z
TrackerInstants == {1380, 1470, 4350, 5790}
TrackerZones == {FixedZone(0), FixedZone(IstOffset)}

\* the cells the user types into, as (exerciseIndex, setIndex), the fields
\* and the values
TypedCells == {<<4, 2>>}
SetFields == {"reps", "weight"}
TypedValues == {0, 8}

InitTracker ==
    /\ store = EmptyStore
    /\ pre = EmptyStore
    /\ lastOp = Op("init", <<>>, TRUE, FALSE, <<>>)
    /\ now \in TrackerInstants
    /\ tz \in TrackerZones
    /\ calc = NoCalc
    /\ limit = MaxTrackerLogs
    /\ tabs = NoTabs
    /\ view = NoView

\* the component is mounted: the first render computes initialType and
\* initialData
Mount ==
    \E env \in Envs :
        LET initialType == initialTypeOf(getTodayWorkoutType(now, tz))
            initialData == loadWorkoutData(store, env, initialType, now)
        IN  /\ ~view.mounted
            /\ view' = IF initialData.raised
                       THEN [NoView EXCEPT !.crashed = TRUE, !.selectedType = initialType]
                       ELSE [mounted |-> TRUE, crashed |-> FALSE,
                             selectedType |-> initialType,
                             exercises |-> initialData.exercises,
                             isSaved |-> initialData.isSaved]
            /\ lastOp' = Op("mount", <<>>, env # "denied", initialData.raised, <<>>)
            /\ pre' = store
            /\ UNCHANGED <<store, now, tz, calc, limit, tabs>>

\* the user leaves the workout tab
Unmount ==
    /\ view.mounted
    /\ view' = NoView
    /\ lastOp' = Op("unmount", <<>>, TRUE, FALSE, <<>>)
    /\ pre' = store
    /\ UNCHANGED <<store, now, tz, calc, limit, tabs>>

HandleTypeChange ==
    \E type \in TrainingTypes, env \in Envs :
        LET data == loadWorkoutData(store, env, type, now)
        IN  /\ view.mounted
            /\ view' = [view EXCEPT !.selectedType = type,
                                    !.exercises = data.exercises,
                                    !.isSaved = data.isSaved]
            /\ lastOp' = Op("handleTypeChange", type, env # "denied", FALSE, <<>>)
            /\ pre' = store
            /\ UNCHANGED <<store, now, tz, calc, limit, tabs>>

UpdateSet ==
    \E cell \in TypedCells, field \in SetFields, value \in TypedValues :
        /\ view.mounted
        /\ cell[1] + 1 \in DOMAIN view.exercises
        /\ cell[2] + 1 \in DOMAIN view.exercises[cell[1] + 1].sets
        /\ view' = [view EXCEPT
                        !.exercises = updateSet(@, cell[1], cell[2], field, value),
                        !.isSaved = FALSE]
        /\ lastOp' = Op("updateSet",
                        [exerciseIndex |-> cell[1], setIndex |-> cell[2],
                         field |-> field, value |-> value], TRUE, FALSE, <<>>)
        /\ pre' = store
        /\ UNCHANGED <<store, now, tz, calc, limit, tabs>>

\* the save button is disabled while the exercises hold no logged data
HandleSave ==
    \E env \in Envs :
        LET log == [id |-> now, date |-> getTodayDate(now), type |-> view.selectedType,
                    exercises |-> view.exercises]
            r == saveWorkoutLog(store, log, env)
        IN  /\ view.mounted
            /\ hasLoggedData(view.exercises)
            /\ TotalRecords(r.store) <= limit
            /\ store' = r.store
            /\ view' = [view EXCEPT !.isSaved = TRUE]
            /\ lastOp' = Op("handleSave", log, env = "ok", r.raised, <<>>)
            /\ pre' = store
            /\ UNCHANGED <<now, tz, calc, limit, tabs>>

\* the clock moves on to the next of the instants
Tick ==
    /\ \E t \in TrackerInstants : t > now
    /\ now' = CHOOSE t \in TrackerInstants :
                t > now /\ \A u \in TrackerInstants : u > now => t <= u
    /\ lastOp' = Op("tick", <<>>, TRUE, FALSE, <<>>)
    /\ pre' = store
    /\ UNCHANGED <<store, tz, calc, limit, tabs, view>>

NextTracker ==
    \/ Mount
    \/ Unmount
    \/ HandleTypeChange
    \/ UpdateSet
    \/ HandleSave
    \/ Tick

SpecTracker == InitTracker /\ [][NextTracker]_vars

----------------------------------------------------------------------------
(* The dashboard's stats and the operations the views log with *)

\* storage without entries and storage with a legacy workout of a day of
\* the week the stats look at
ViewStores ==
    {EmptyStore,
     saveWorkout(EmptyStore, [id |-> 1, date |-> 1, type |-> "Push"], "ok").store}

InitViews ==
    /\ store \in ViewStores
    /\ pre = store
    /\ lastOp = Op("init", <<>>, TRUE, FALSE, <<>>)
    /\ now = StatsToday * MinutesPerDay + IstOffset
    /\ tz \in TrackerZones
    /\ calc = NoCalc
    /\ limit = MaxViewRecords
    /\ tabs = NoTabs
    /\ view = NoView

NextViews ==
    \/ SaveWorkoutLog
    \/ SaveMealLog
    \/ DeleteMealLog
    \/ SaveNutritionTargets
    \/ CalculateStreak
    \/ GetWeeklyCompletion
    \/ GetWeeklyStats

SpecViews == InitViews /\ [][NextViews]_vars

----------------------------------------------------------------------------
(* Numbers.  A JavaScript number is an IEEE 754 double: 53 significant      *)
(* bits, every operation rounded to the nearest double, ties to the even    *)
(* one.  The doubles of the calculations are zero or lie in [2^-9, 2^10),   *)
(* so each is a whole number of units of 2^-62, written here in four limbs  *)
(* of 20 bits, the most significant first.                                  *)

LimbBase == 1048576

DoubleZero == <<0, 0, 0, 0>>

\* the double of a whole number n, n * 2^62 units
FromInteger(n) == <<n * 4, 0, 0, 0>>

\* limbs that have outgrown LimbBase, carried upwards
Carry(x) ==
    LET c == x[3] + x[4] \div LimbBase
        b == x[2] + c \div LimbBase
        a == x[1] + b \div LimbBase
    IN  <<a, b % LimbBase, c % LimbBase, x[4] % LimbBase>>

\* the position of the highest set bit of a limb v > 0
Log2(v) == CHOOSE e \in 0..19 : 2^e <= v /\ v < 2^(e + 1)

\* the position of the highest set bit of x # DoubleZero
TopBit(x) ==
    IF x[1] > 0 THEN 60 + Log2(x[1])
    ELSE IF x[2] > 0 THEN 40 + Log2(x[2])
    ELSE IF x[3] > 0 THEN 20 + Log2(x[3])
    ELSE Log2(x[4])

\* the double nearest to the exact value x (plus a rest below one unit if
\* sticky): 53 bits are kept from the highest set bit on, ties go to even
RoundToDouble(x, sticky) ==
    IF x = DoubleZero THEN x
    ELSE LET k == TopBit(x) - 52
         IN  IF k <= 0 THEN x
             ELSE LET ulp == 2^k
                      low == x[4] % ulp
                      half == ulp \div 2
                      odd == (x[4] \div ulp) % 2 = 1
                      up == \/ low > half
                            \/ low = half /\ (sticky \/ odd)
                  IN  IF up
                      THEN Carry(<<x[1], x[2], x[3], x[4] - low + ulp>>)
                      ELSE <<x[1], x[2], x[3], x[4] - low>>

\* x + y
DoubleAdd(x, y) ==
    RoundToDouble(Carry(<<x[1] + y[1], x[2] + y[2], x[3] + y[3], x[4] + y[4]>>),
                  FALSE)

\* x * m, m a whole number
DoubleTimes(x, m) ==
    RoundToDouble(Carry(<<x[1] * m, x[2] * m, x[3] * m, x[4] * m>>), FALSE)

\* x / t, t a whole number > 0: long division, limb by limb
DoubleOver(x, t) ==
    LET n2 == (x[1] % t) * LimbBase + x[2]
        n3 == (n2 % t) * LimbBase + x[3]
        n4 == (n3 % t) * LimbBase + x[4]
    IN  RoundToDouble(<<x[1] \div t, n2 \div t, n3 \div t, n4 \div t>>,
                      n4 % t # 0)

\* Math.round(x), x >= 0: the nearest whole number, a half goes up
MathRound(x) == x[1] \div 4 + (IF x[1] % 4 >= 2 THEN 1 ELSE 0)

Min(a, b) == IF a <= b THEN a ELSE b

----------------------------------------------------------------------------
(* Calculations (utils/calculations.ts, types/mealTemplates.ts) *)

\* types/index.ts: grams of protein per egg, per 100 g, per scoop
PROTEIN_VALUES == [egg |-> 6, chicken |-> 31, paneer |-> 18, soya |-> 52, whey |-> 24]

\* entry.field || 0: a missing field (undefined) and 0 both give 0
OrZero(entry, field) == IF field \in DOMAIN entry THEN entry[field] ELSE 0

\* (entry.field || 0) / 100
PerHundred(entry, field) == DoubleOver(FromInteger(OrZero(entry, field)), 100)

\* a calculation that leaves the whey out
calculateProteinNoWhey(entry) ==
    LET eggs == DoubleTimes(FromInteger(OrZero(entry, "eggs")), PROTEIN_VALUES.egg)
        chicken == DoubleTimes(PerHundred(entry, "chickenGrams"), PROTEIN_VALUES.chicken)
        paneer == DoubleTimes(PerHundred(entry, "paneerGrams"), PROTEIN_VALUES.paneer)
        soya == DoubleTimes(PerHundred(entry, "soyaGrams"), PROTEIN_VALUES.soya)
    IN  MathRound(DoubleAdd(DoubleAdd(DoubleAdd(eggs, chicken), paneer), soya))

calculateProtein(entry) ==
    LET eggs == DoubleTimes(FromInteger(OrZero(entry, "eggs")), PROTEIN_VALUES.egg)
        chicken == DoubleTimes(PerHundred(entry, "chickenGrams"), PROTEIN_VALUES.chicken)
        paneer == DoubleTimes(PerHundred(entry, "paneerGrams"), PROTEIN_VALUES.paneer)
        soya == DoubleTimes(PerHundred(entry, "soyaGrams"), PROTEIN_VALUES.soya)
        whey == DoubleTimes(FromInteger(OrZero(entry, "wheyScoops")), PROTEIN_VALUES.whey)
    IN  MathRound(DoubleAdd(DoubleAdd(DoubleAdd(DoubleAdd(eggs, chicken), paneer),
                                      soya), whey))

\* a percentage that is not capped at 100
calculateProteinPercentageUncapped(consumed, target) ==
    IF target <= 0
    THEN 0
    ELSE MathRound(DoubleTimes(DoubleOver(FromInteger(consumed), target), 100))

calculateProteinPercentage(consumed, target) ==
    IF target <= 0
    THEN 0
    ELSE Min(MathRound(DoubleTimes(DoubleOver(FromInteger(consumed), target), 100)),
             100)

\* types/mealTemplates.ts: the macros of the meal templates, whole numbers
MEAL_TEMPLATES ==
    [id \in {"breakfast-egg-protocol", "lunch-chicken-bowl", "lunch-soya-bowl",
             "dinner-paneer-meal", "dinner-chicken", "snack-whey-banana"} |->
        CASE id = "breakfast-egg-protocol" ->
                [protein |-> 42, calories |-> 480, carbs |-> 20, fat |-> 25, fiber |-> 8]
          [] id = "lunch-chicken-bowl" ->
                [protein |-> 55, calories |-> 650, carbs |-> 75, fat |-> 12, fiber |-> 8]
          [] id = "lunch-soya-bowl" ->
                [protein |-> 50, calories |-> 600, carbs |-> 70, fat |-> 8, fiber |-> 12]
          [] id = "dinner-paneer-meal" ->
                [protein |-> 40, calories |-> 550, carbs |-> 35, fat |-> 22, fiber |-> 7]
          [] id = "dinner-chicken" ->
                [protein |-> 45, calories |-> 450, carbs |-> 25, fat |-> 10, fiber |-> 6]
          [] id = "snack-whey-banana" ->
                [protein |-> 24, calories |-> 210, carbs |-> 27, fat |-> 2, fiber |-> 3]]

\* a step that keeps the larger fiber instead of adding it
AddMacrosMaxFiber(total, macros) ==
    [protein |-> total.protein + macros.protein,
     calories |-> total.calories + macros.calories,
     carbs |-> total.carbs + macros.carbs,
     fat |-> total.fat + macros.fat,
     fiber |-> IF total.fiber >= macros.fiber THEN total.fiber ELSE macros.fiber]

\* the step of the reduce of calculateTotalMacros; the macros are whole
\* numbers far below 2^53, on which the addition of doubles is exact
AddMacros(total, macros) ==
    [protein |-> total.protein + macros.protein,
     calories |-> total.calories + macros.calories,
     carbs |-> total.carbs + macros.carbs,
     fat |-> total.fat + macros.fat,
     fiber |-> total.fiber + macros.fiber]

ZeroMacros == [protein |-> 0, calories |-> 0, carbs |-> 0, fat |-> 0, fiber |-> 0]

\* logs.reduce(step, total)
RECURSIVE ReduceMacros(_, _)
ReduceMacros(total, logs) ==
    IF logs = <<>>
    THEN total
    ELSE ReduceMacros(AddMacros(total, Head(logs).macros), Tail(logs))

calculateTotalMacros(logs) == ReduceMacros(ZeroMacros, logs)

(* The calculations, called on bounded inputs *)

EggCounts == {0, 4}
ChickenGrams == {0, 50, 200}
PaneerGrams == {0, 35, 45}
SoyaGrams == {0, 85, 145}
WheyScoops == {0, 1}

\* entries with every field, and entries that leave fields out
ProteinEntries ==
    [chickenGrams : ChickenGrams, eggs : EggCounts, paneerGrams : PaneerGrams,
     soyaGrams : SoyaGrams, wheyScoops : WheyScoops]
    \cup {[eggs |-> 4], [chickenGrams |-> 200, wheyScoops |-> 1],
          [paneerGrams |-> 45, soyaGrams |-> 145]}

Consumed == {0, 23, 90, 110, 115, 180, 250}
Targets == {-10, 0, 40, 180, 200}

\* the meal logs handleLogMeal makes of a template: macros: {...template.macros}
LoggedMeals ==
    {[macros |-> MEAL_TEMPLATES[id], templateId |-> id] : id \in DOMAIN MEAL_TEMPLATES}

\* the lists of at most n logged meals
RECURSIVE MealLists(_)
MealLists(n) ==
    IF n = 0
    THEN {<<>>}
    ELSE MealLists(n - 1)
         \cup {Append(l, m) : l \in {k \in MealLists(n - 1) : Len(k) = n - 1},
                              m \in LoggedMeals}

\* one call of a calculation
Calc(name, arg, result) ==
    /\ calc' = [name |-> name, arg |-> arg, argAfter |-> arg, result |-> result]
    /\ UNCHANGED <<store, pre, lastOp, now, tz, limit, tabs, view>>

CalculateProtein ==
    \E entry \in ProteinEntries :
        Calc("calculateProtein", entry, calculateProtein(entry))

CalculateProteinPercentage ==
    \E consumed \in Consumed, target \in Targets :
        Calc("calculateProteinPercentage", <<consumed, target>>,
             calculateProteinPercentage(consumed, target))

CalculateTotalMacros ==
    \E logs \in MealLists(MaxMealList) :
        Calc("calculateTotalMacros", logs, calculateTotalMacros(logs))

NextCalc ==
    \/ CalculateProtein
    \/ CalculateProteinPercentage
    \/ CalculateTotalMacros

SpecCalc == Init /\ [][NextCalc]_vars

----------------------------------------------------------------------------
(* Properties of the persistence layer.  The collections are read as the   *)
(* loads return them.                                                      *)

StoredWorkouts(s) == getAppData(s, "ok").value.workouts
StoredNutrition(s) == getAppData(s, "ok").value.nutrition
StoredWeights(s) == getAppData(s, "ok").value.weights
StoredLogs(s) == getWorkoutLogs(s, "ok").value
StoredMeals(s) == getMealLogs(s, "ok").value

KeyedSaves == {"saveWorkout", "saveWorkoutLog", "saveNutrition", "saveWeight"}

\* the collection a keyed save works on
CollectionOf(name, s) ==
    CASE name = "saveWorkout" -> StoredWorkouts(s)
      [] name = "saveWorkoutLog" -> StoredLogs(s)
      [] name = "saveNutrition" -> StoredNutrition(s)
      [] name = "saveWeight" -> StoredWeights(s)

\* the uniqueness key of a collection: (date, type) or date
SameKey(name, a, b) ==
    IF name \in {"saveWorkout", "saveWorkoutLog"}
    THEN a.date = b.date /\ a.type = b.type
    ELSE a.date = b.date

IndicesWithKey(name, seq, rec) == {i \in 1..Len(seq) : SameKey(name, seq[i], rec)}

ExactlyOneAndIs(name, seq, rec) ==
    \E i \in 1..Len(seq) :
        /\ IndicesWithKey(name, seq, rec) = {i}
        /\ seq[i] = rec

TwoLogSaves ==
    /\ lastOp.name = "saveWorkoutLog"
    /\ lastOp'.name = "saveWorkoutLog"
    /\ SameKey("saveWorkoutLog", lastOp.arg, lastOp'.arg)

\* C1, as claimed: whenever saveWorkoutLog(a) is followed by saveWorkoutLog(b)
\* with the same (date, type), the stored logs then hold exactly one record of
\* that key, and it is b.
C1_SecondSaveWins ==
    [][TwoLogSaves => ExactlyOneAndIs("saveWorkoutLog", StoredLogs(store'), lastOp'.arg)]_vars

\* C1, amended: whenever saveWorkoutLog(a) is followed by a saveWorkoutLog(b)
\* with the same (date, type) whose storage write succeeds, the stored logs
\* then hold exactly one record of that key, and it is b.
C1_SecondSaveWinsWhenWritten ==
    [][(TwoLogSaves /\ lastOp'.ok)
        => ExactlyOneAndIs("saveWorkoutLog", StoredLogs(store'), lastOp'.arg)]_vars

\* a written saveWorkoutLog(b) has replaced a different stored log a of its
\* key, next to a log of another key
C1_Witness ==
    /\ lastOp.name = "saveWorkoutLog"
    /\ lastOp.ok
    /\ Len(StoredLogs(pre)) = 2
    /\ \E i \in IndicesWithKey("saveWorkoutLog", StoredLogs(pre), lastOp.arg) :
            StoredLogs(pre)[i] # lastOp.arg
    /\ ExactlyOneAndIs("saveWorkoutLog", StoredLogs(store), lastOp.arg)

UniqueKeys(name, seq) ==
    \A i, j \in 1..Len(seq) : SameKey(name, seq[i], seq[j]) => i = j

\* C2: in every state reached from the empty storage by the keyed saves, each
\* of the workouts, workout logs, nutrition and weights collections holds at
\* most one record per key ((date, type), resp. date).
C2_AtMostOnePerKey ==
    \A name \in KeyedSaves : UniqueKeys(name, CollectionOf(name, store))

\* a keyed save has been written onto a key its collection already held, the
\* collection holding a second record
C2_Witness ==
    /\ lastOp.name \in KeyedSaves
    /\ lastOp.ok
    /\ IndicesWithKey(lastOp.name, CollectionOf(lastOp.name, pre), lastOp.arg) # {}
    /\ Len(CollectionOf(lastOp.name, store)) = 2

\* new is old with rec put in the place of the record of its key, or with rec
\* appended when old holds no record of that key
UpsertEffect(name, old, new, rec) ==
    IF IndicesWithKey(name, old, rec) # {}
    THEN /\ Len(new) = Len(old)
         /\ \E i \in IndicesWithKey(name, old, rec) :
                /\ new[i] = rec
                /\ \A j \in 1..Len(old) : j # i => new[j] = old[j]
    ELSE /\ Len(new) = Len(old) + 1
         /\ new[Len(new)] = rec
         /\ \A j \in 1..Len(old) : new[j] = old[j]

\* C3, as claimed: every keyed save puts its record in the place of the stored
\* record of its key, the length unchanged, or appends it when there is none,
\* the length growing by one; every other record keeps its value and place.
C3_SaveIsUpsert ==
    lastOp.name \in KeyedSaves
        => UpsertEffect(lastOp.name, CollectionOf(lastOp.name, pre),
                        CollectionOf(lastOp.name, store), lastOp.arg)

\* C3, amended: every keyed save whose storage write succeeds puts its record
\* in the place of the stored record of its key, the length unchanged, or
\* appends it when there is none, the length growing by one; every other
\* record keeps its value and place.
C3_WrittenSaveIsUpsert ==
    (lastOp.name \in KeyedSaves /\ lastOp.ok)
        => UpsertEffect(lastOp.name, CollectionOf(lastOp.name, pre),
                        CollectionOf(lastOp.name, store), lastOp.arg)

\* a written saveNutrition has replaced the first of two stored entries by a
\* different entry
C3_Witness ==
    /\ lastOp.name = "saveNutrition"
    /\ lastOp.ok
    /\ Len(StoredNutrition(pre)) = 2
    /\ SameKey("saveNutrition", StoredNutrition(pre)[1], lastOp.arg)
    /\ StoredNutrition(pre)[1] # lastOp.arg
    /\ StoredNutrition(store)[1] = lastOp.arg

\* new holds exactly the entries of old whose id is not logId, in their order
DeleteEffect(old, new, logId) ==
    /\ \A i \in 1..Len(new) : new[i].id # logId
    /\ \E f \in [1..Len(new) -> 1..Len(old)] :
        /\ \A i, j \in 1..Len(new) : i < j => f[i] < f[j]
        /\ \A i \in 1..Len(new) : old[f[i]] = new[i]
        /\ \A k \in 1..Len(old) :
                old[k].id # logId => \E i \in 1..Len(new) : f[i] = k
    /\ (\A k \in 1..Len(old) : old[k].id # logId) => new = old

\* C4, as claimed: deleteMealLog(id) removes the meal logs of that id and
\* leaves every other stored meal log with its value and in its order; when no
\* meal log has the id the stored collection is unchanged.
C4_DeleteRemovesThatEntry ==
    lastOp.name = "deleteMealLog"
        => DeleteEffect(StoredMeals(pre), StoredMeals(store), lastOp.arg)

\* C4, amended: a deleteMealLog(id) whose storage write succeeds removes the
\* meal logs of that id and leaves every other stored meal log with its value
\* and in its order; when no meal log has the id the stored collection is
\* unchanged.
C4_WrittenDeleteRemovesThatEntry ==
    (lastOp.name = "deleteMealLog" /\ lastOp.ok)
        => DeleteEffect(StoredMeals(pre), StoredMeals(store), lastOp.arg)

\* a written deleteMealLog has removed the middle one of three meal logs
C4_Witness ==
    /\ lastOp.name = "deleteMealLog"
    /\ lastOp.ok
    /\ Len(StoredMeals(pre)) = 3
    /\ StoredMeals(pre)[2].id = lastOp.arg
    /\ StoredMeals(pre)[1].id # lastOp.arg
    /\ StoredMeals(pre)[3].id # lastOp.arg
    /\ StoredMeals(store) = <<StoredMeals(pre)[1], StoredMeals(pre)[3]>>

IndicesWithId(seq, logId) == {i \in 1..Len(seq) : seq[i].id = logId}

\* seq without its element at index i
RemoveAt(seq, i) == SubSeq(seq, 1, i - 1) \o SubSeq(seq, i + 1, Len(seq))

FirstWithId(seq, logId) ==
    CHOOSE i \in IndicesWithId(seq, logId) :
        \A j \in IndicesWithId(seq, logId) : i <= j

\* a deleteMealLog has been written while several stored meal logs had its id
DeletedAmongDuplicates ==
    /\ lastOp.name = "deleteMealLog"
    /\ lastOp.ok
    /\ Cardinality(IndicesWithId(StoredMeals(pre), lastOp.arg)) >= 2

C6_SaveMealLogAppends ==
    (lastOp.name = "saveMealLog" /\ lastOp.ok)
        => /\ Len(StoredMeals(store)) = Len(StoredMeals(pre)) + 1
           /\ StoredMeals(store)[Len(StoredMeals(store))] = lastOp.arg
           /\ \A i \in 1..Len(StoredMeals(pre)) :
                StoredMeals(store)[i] = StoredMeals(pre)[i]

\* a meal log has been appended to stored meal logs one of which has its id,
\* its date and its templateId, and another one its date under another id
C6_Witness ==
    /\ lastOp.name = "saveMealLog"
    /\ lastOp.ok
    /\ \E i \in 1..Len(StoredMeals(pre)) : StoredMeals(pre)[i] = lastOp.arg
    /\ \E i \in 1..Len(StoredMeals(pre)) :
            /\ StoredMeals(pre)[i].date = lastOp.arg.date
            /\ StoredMeals(pre)[i].id # lastOp.arg.id
    /\ Len(StoredMeals(store)) = 3

Loads == {"getAppData", "getWorkoutLogs", "getMealLogs", "getNutritionTargets"}

KeyOf(name) ==
    CASE name = "getAppData" -> STORAGE_KEY
      [] name = "getWorkoutLogs" -> WORKOUT_LOGS_KEY
      [] name = "getMealLogs" -> MEAL_LOGS_KEY
      [] name = "getNutritionTargets" -> NUTRITION_TARGETS_KEY

DocumentedDefault(name) ==
    CASE name = "getAppData" ->
            [workouts |-> <<>>, nutrition |-> <<>>, weights |-> <<>>,
             nutritionSettings |-> [dailyProteinTarget |-> 180]]
      [] name = "getWorkoutLogs" -> <<>>
      [] name = "getMealLogs" -> <<>>
      [] name = "getNutritionTargets" -> [protein |-> 180, calories |-> 2300]

\* the key was absent, its text did not parse, or reading storage failed
NothingToLoad ==
    /\ lastOp.name \in Loads
    /\ \/ store[KeyOf(lastOp.name)].kind \in {"absent", "corrupt"}
       \/ ~lastOp.ok

\* C7: a load of a key that is absent, whose text does not parse or whose read
\* fails returns the documented default without raising.
C7_LoadFallsBackToDefault ==
    NothingToLoad
        => /\ ~lastOp.raised
           /\ lastOp.result = DocumentedDefault(lastOp.name)

\* getAppData has met a text that does not parse where app data had been
\* stored
C7_Witness ==
    /\ lastOp.name = "getAppData"
    /\ lastOp.ok
    /\ store[STORAGE_KEY] = Corrupt
    /\ store[WORKOUT_LOGS_KEY].kind = "json"
    /\ lastOp.result = DocumentedDefault("getAppData")

Mutations ==
    {"saveWorkout", "saveWorkoutLog", "saveNutrition", "saveWeight",
     "updateNutritionSettings", "saveMealLog", "deleteMealLog",
     "saveNutritionTargets"}

\* C8: a save or delete whose storage write fails returns without raising and
\* leaves every stored document as it was.
C8_FailedWriteChangesNothing ==
    (lastOp.name \in Mutations /\ ~lastOp.ok)
        => /\ ~lastOp.raised
           /\ store = pre

\* the write of a saveWorkout has failed on storage that holds a nutrition
\* entry and nutrition targets
C8_Witness ==
    /\ lastOp.name = "saveWorkout"
    /\ ~lastOp.ok
    /\ ~lastOp.raised
    /\ Len(StoredNutrition(store)) = 1
    /\ store[NUTRITION_TARGETS_KEY].kind = "json"
    /\ store = pre

----------------------------------------------------------------------------
(* Properties of the rotation schedule *)

RotationCalls == {"getWorkoutTypeForDate", "getTodayWorkoutType"}

\* C9: the type returned for a date is ROTATION[((dayIndex mod 7) + 7) mod 7],
\* dayIndex being the days from 2024-01-01 to the date's calendar day and
\* ROTATION = [Push, Pull, Legs, Push, Pull, Legs, Rest]; it is never
\* undefined.
C9_SevenDayRotation ==
    calc.name \in RotationCalls
        => /\ calc.result
                = <<"Push", "Pull", "Legs", "Push", "Pull", "Legs", "Rest">>
                    [(((LocalDay(calc.arg, tz) % 7) + 7) % 7) + 1]
           /\ calc.result \in {"Push", "Pull", "Legs", "Rest"}

\* C10: the type for 2024-01-01 is Push, for 2024-01-07 Rest and for
\* 2024-01-08 Push.
C10_RotationAnchors ==
    calc.name = "getWorkoutTypeForDate"
        => /\ LocalDay(calc.arg, tz) = 0 => calc.result = "Push"
           /\ LocalDay(calc.arg, tz) = 6 => calc.result = "Rest"
           /\ LocalDay(calc.arg, tz) = 7 => calc.result = "Push"

\* C11: the type returned for a date and the type returned for the date
\* seven calendar days later are the same, whatever the two times of day.
C11_SevenDayPeriod ==
    [][(/\ calc.name = "getWorkoutTypeForDate"
        /\ calc'.name = "getWorkoutTypeForDate"
        /\ LocalDay(calc'.arg, tz) = LocalDay(calc.arg, tz) + CycleLength)
            => calc'.result = calc.result]_vars

\* C12: getWorkoutTypeForDate leaves the Date it was given as it was: the
\* same day and the same time of day after the call as before it.
C12_ArgumentNotMutated ==
    calc.name = "getWorkoutTypeForDate" => calc.argAfter = calc.arg

----------------------------------------------------------------------------
(* Properties of the stats.  Today is the calendar day the runtime's clock  *)
(* shows; the entries are the ones the storage holds, and the properties    *)
(* are stated for the calls whose storage reads work.                       *)

Today == LocalDay(now, tz)

\* a call of the stats function name whose storage reads have worked
Called(name) == calc.name = name /\ calc.arg.env # "denied"

\* the days that have a legacy workout entry or a nutrition entry
LoggedDays == DateSet(StoredWorkouts(store)) \cup DateSet(StoredNutrition(store))

\* the days day, day - 1, ..., day - (n - 1)
DaysUpTo(day, n) == (day - (n - 1))..day

\* C13: calculateStreak returns the number of consecutive logged days
\* walking back from today; an unlogged today is skipped, the first
\* unlogged day before today ends the count (3 for {today, today-1,
\* today-2}, 2 for {today-1, today-2}, 0 for no logged day).
C13_StreakCountsBackFromToday ==
    Called("calculateStreak")
        => calc.result.streak
            = Cardinality({i \in 0..(StreakCap - 1) :
                             /\ Today - i \in LoggedDays
                             /\ \A j \in 1..i : Today - j \in LoggedDays})

\* C14: calculateStreak examines at most the 365 days today .. today-364,
\* its result lies in 0..365, and it is 365 when more than 365 consecutive
\* days up to today are logged.
C14_StreakBoundedByYear ==
    Called("calculateStreak")
        => /\ calc.result.examined \subseteq DaysUpTo(Today, StreakCap)
           /\ Cardinality(calc.result.examined) <= StreakCap
           /\ calc.result.streak \in 0..StreakCap
           /\ DaysUpTo(Today, StreakCap + 1) \subseteq LoggedDays
                => calc.result.streak = StreakCap

\* C15: getWeeklyCompletion returns 7 booleans, oldest first: element k
\* (k in 0..6) is true exactly if a legacy workout is dated today-(6-k).
C15_WeeklyCompletionOldestFirst ==
    Called("getWeeklyCompletion")
        => /\ DOMAIN calc.result = 1..7
           /\ \A k \in 0..6 :
                calc.result[k + 1]
                    <=> (Today - (6 - k) \in DateSet(StoredWorkouts(store)))

\* the entries dated within the window days that ends today
InWindow(entries, days) ==
    SelectSeq(entries, LAMBDA e : e.date \in DaysUpTo(Today, days))

\* C16: the lookback filters select exactly the entries dated within
\* [today-(window-1), today]: getWeeklyStats with window 7,
\* getMealLogsForDays(N) with window N.
C16_LookbackWindowInclusive ==
    /\ Called("getWeeklyStats")
        => /\ calc.result.workoutsCompleted
                = Len(InWindow(StoredWorkouts(store), 7))
           /\ calc.result.nutritionEntries = InWindow(StoredNutrition(store), 7)
           /\ calc.result.weekWeights = InWindow(StoredWeights(store), 7)
    /\ Called("getMealLogsForDays")
        => calc.result = InWindow(StoredMeals(store), calc.arg.days)

----------------------------------------------------------------------------
(* Properties of the calculations *)

\* the grams of protein of an entry, in hundredths of a gram
ProteinHundredths(entry) ==
    600 * OrZero(entry, "eggs") + 31 * OrZero(entry, "chickenGrams")
        + 18 * OrZero(entry, "paneerGrams") + 52 * OrZero(entry, "soyaGrams")
        + 2400 * OrZero(entry, "wheyScoops")

\* round(n / d) for n >= 0 and d > 0, a half going up
RoundedQuotient(n, d) == (2 * n + d) \div (2 * d)

\* C17: calculateProtein returns round(6*eggs + 31*chickenGrams/100 +
\* 18*paneerGrams/100 + 52*soyaGrams/100 + 24*wheyScoops), a missing field
\* counting as 0; 110 for 4 eggs, 200 g of chicken and 1 scoop of whey.
C17_ProteinIsRoundedSum ==
    calc.name = "calculateProtein"
        => calc.result = RoundedQuotient(ProteinHundredths(calc.arg), 100)

\* C18: calculateProteinPercentage(consumed, target) is 0 for target <= 0 and
\* otherwise min(round(consumed/target*100), 100); it never exceeds 100, and
\* it is 61 for (110, 180).
C18_PercentageRoundedAndCapped ==
    calc.name = "calculateProteinPercentage"
        => LET consumed == calc.arg[1]
               target == calc.arg[2]
           IN  /\ target <= 0 => calc.result = 0
               /\ target > 0
                    => calc.result = Min(RoundedQuotient(100 * consumed, target), 100)
               /\ calc.result <= 100
               /\ (consumed = 110 /\ target = 180) => calc.result = 61

\* C17, as the doubles compute it: the result is a whole number nearest to
\* the exact sum; where the exact sum lies halfway between two whole
\* numbers it is the upper or the lower one.
C17_ProteinIsNearestInteger ==
    calc.name = "calculateProtein"
        => LET exact == ProteinHundredths(calc.arg)
               rounded == RoundedQuotient(exact, 100)
           IN  \/ calc.result = rounded
               \/ exact % 100 = 50 /\ calc.result = rounded - 1

\* calculateProtein has been called with 4 eggs, 200 g of chicken and 1
\* scoop of whey and has returned 110
C17_Witness ==
    /\ calc.name = "calculateProtein"
    /\ calc.arg = [eggs |-> 4, chickenGrams |-> 200, paneerGrams |-> 0,
                   soyaGrams |-> 0, wheyScoops |-> 1]
    /\ calc.result = 110

\* C18, as the doubles compute it: 0 for target <= 0; otherwise a whole
\* number nearest to consumed/target*100, capped at 100, the upper or the
\* lower one where the exact percentage lies halfway; never above 100; 61
\* for (110, 180).
C18_PercentageNearestAndCapped ==
    calc.name = "calculateProteinPercentage"
        => LET consumed == calc.arg[1]
               target == calc.arg[2]
               rounded == RoundedQuotient(100 * consumed, target)
               halfway == (200 * consumed) % (2 * target) = target
           IN  /\ target <= 0 => calc.result = 0
               /\ target > 0
                    => \/ calc.result = Min(rounded, 100)
                       \/ halfway /\ calc.result = Min(rounded - 1, 100)
               /\ calc.result <= 100
               /\ (consumed = 110 /\ target = 180) => calc.result = 61

\* calculateProteinPercentage(110, 180) has returned 61
C18_Witness ==
    /\ calc.name = "calculateProteinPercentage"
    /\ calc.arg = <<110, 180>>
    /\ calc.result = 61

MacroFields == {"protein", "carbs", "fat", "fiber", "calories"}

\* the sum of the field over the logs at the positions idx
RECURSIVE FieldSum(_, _, _)
FieldSum(logs, idx, field) ==
    IF idx = {}
    THEN 0
    ELSE LET i == CHOOSE j \in idx : TRUE
         IN  logs[i].macros[field] + FieldSum(logs, idx \ {i}, field)

\* the logs at the positions idx, in their order
Picked(logs, idx) ==
    LET pos == {i \in DOMAIN logs : i \in idx}
        Rank(i) == Cardinality({j \in pos : j <= i})
    IN  [r \in 1..Cardinality(pos) |-> logs[CHOOSE i \in pos : Rank(i) = r]]

\* C19: calculateTotalMacros of the empty list is all zero; of any list it
\* is the field-wise sum of the five macro fields, the same for every
\* permutation of the list and equal to the field-wise sum of the totals of
\* the two parts of any split of the list.
C19_TotalMacrosIsFieldwiseSum ==
    calc.name = "calculateTotalMacros"
        => LET logs == calc.arg
               n == Len(logs)
           IN  /\ logs = <<>> => calc.result = ZeroMacros
               /\ DOMAIN calc.result = MacroFields
               /\ \A f \in MacroFields : calc.result[f] = FieldSum(logs, 1..n, f)
               /\ \A p \in Permutations(1..n) :
                    calculateTotalMacros([i \in 1..n |-> logs[p[i]]]) = calc.result
               /\ \A part \in SUBSET (1..n) :
                    \A f \in MacroFields :
                        calculateTotalMacros(Picked(logs, part))[f]
                            + calculateTotalMacros(Picked(logs, (1..n) \ part))[f]
                            = calc.result[f]

\* the total of three different meals has been taken
C19_Witness ==
    /\ calc.name = "calculateTotalMacros"
    /\ Len(calc.arg) = 3
    /\ calc.arg[1].templateId = "breakfast-egg-protocol"
    /\ calc.arg[2].templateId = "lunch-soya-bowl"
    /\ calc.arg[3].templateId = "snack-whey-banana"
    /\ calc.result = [protein |-> 116, calories |-> 1290, carbs |-> 117,
                      fat |-> 35, fiber |-> 23]

----------------------------------------------------------------------------
(* Properties of the month calendar *)

\* the current calendar date at UTC+5:30
DateInIndia == (now + IstOffset) \div MinutesPerDay

\* the days of the month the day lies in
DaysOfMonth(day) == MonthStarts[MonthOf(day)]..(MonthStarts[MonthOf(day) + 1] - 1)

\* C20: getCurrentMonthCalendar takes today to be the current calendar date
\* at UTC+5:30 whatever the runtime's own offset is; it returns one entry per
\* day of that date's month, exactly one entry has isToday (the entry of that
\* date), isFuture holds exactly of the entries after it, and no entry is
\* both isToday and isFuture.
C20_CalendarTodayIsIndianDate ==
    calc.name = "getCurrentMonthCalendar"
        => LET days == calc.result.days
               n == Len(days)
           IN  /\ n = Cardinality(DaysOfMonth(DateInIndia))
               /\ {days[i].date : i \in 1..n} = DaysOfMonth(DateInIndia)
               /\ Cardinality({i \in 1..n : days[i].isToday}) = 1
               /\ \A i \in 1..n :
                    /\ days[i].isToday <=> (days[i].date = DateInIndia)
                    /\ days[i].isFuture <=> (days[i].date > DateInIndia)
                    /\ ~(days[i].isToday /\ days[i].isFuture)

----------------------------------------------------------------------------
(* Properties of the legacy collections *)

\* the keys of the entries of the legacy collections: (date, type) of a
\* workout, the date of a nutrition entry and of a weight
WorkoutKeys(s) == {<<w.date, w.type>> : w \in {StoredWorkouts(s)[i] : i \in DOMAIN StoredWorkouts(s)}}
NutritionKeys(s) == DateSet(StoredNutrition(s))
WeightKeys(s) == DateSet(StoredWeights(s))

\* C21: the legacy save paths never delete: no step of saveWorkout,
\* saveNutrition, saveWeight or updateNutritionSettings makes the workouts,
\* the nutrition or the weights collection shorter, and every key the
\* collections hold before a step they hold after it, so a key once present
\* stays present in all later states.
C21_LegacyNeverDeletes ==
    [][/\ Len(StoredWorkouts(store')) >= Len(StoredWorkouts(store))
       /\ Len(StoredNutrition(store')) >= Len(StoredNutrition(store))
       /\ Len(StoredWeights(store')) >= Len(StoredWeights(store))
       /\ WorkoutKeys(store) \subseteq WorkoutKeys(store')
       /\ NutritionKeys(store) \subseteq NutritionKeys(store')
       /\ WeightKeys(store) \subseteq WeightKeys(store')]_vars

\* the settings were updated, and written, on storage that holds a workout
\* and a weight, and both are still there
C21_Witness ==
    /\ lastOp.name = "updateNutritionSettings"
    /\ lastOp.ok
    /\ store # pre
    /\ Len(StoredWorkouts(pre)) = 1
    /\ Len(StoredWeights(pre)) = 1
    /\ StoredWorkouts(store) = StoredWorkouts(pre)
    /\ StoredWeights(store) = StoredWeights(pre)

----------------------------------------------------------------------------
(* Properties of concurrent saves *)

\* the records of the documents of a storage, each with its collection
RecordsOf(s) ==
    {<<"workouts", StoredWorkouts(s)[i]>> : i \in DOMAIN StoredWorkouts(s)}
    \cup {<<"nutrition", StoredNutrition(s)[i]>> : i \in DOMAIN StoredNutrition(s)}
    \cup {<<"weights", StoredWeights(s)[i]>> : i \in DOMAIN StoredWeights(s)}
    \cup {<<"meals", StoredMeals(s)[i]>> : i \in DOMAIN StoredMeals(s)}

\* the collection a save puts its record in
CollectionName(op) ==
    CASE op = "saveWorkout" -> "workouts"
      [] op = "saveNutrition" -> "nutrition"
      [] op = "saveMealLog" -> "meals"

\* C22: a save reads the whole document and writes the whole document back:
\* the document a tab's save writes holds the records of the text that tab
\* has read and the record it saves, and nothing else, whatever was stored
\* in between.  So with the reads and writes of two tabs interleaved a lost
\* update is reachable: both saves have completed and the stored document
\* lacks the record one of them wrote.
C22_WriteKeepsOnlyWhatWasRead ==
    [][\A t \in Tabs :
        (tabs[t].pc = "read" /\ tabs'[t].pc = "done")
            => LET key == DocumentOf(tabs[t].op)
                   read == [EmptyStore EXCEPT ![key] = tabs[t].text]
                   written == [EmptyStore EXCEPT ![key] = store'[key]]
               IN  /\ RecordsOf(written) \subseteq
                        RecordsOf(read) \cup {<<CollectionName(tabs[t].op), tabs[t].arg>>}
                   /\ <<CollectionName(tabs[t].op), tabs[t].arg>> \in RecordsOf(written)]_vars

\* the lost update: the saveWorkout of tab 1 and the saveNutrition of tab 2
\* have both completed, and the stored document has no workout
C22_Witness ==
    /\ tabs[1].pc = "done" /\ tabs[1].op = "saveWorkout"
    /\ tabs[2].pc = "done" /\ tabs[2].op = "saveNutrition"
    /\ StoredWorkouts(store) = <<>>
    /\ StoredNutrition(store) = <<tabs[2].arg>>

----------------------------------------------------------------------------
(* Properties of the previous-log lookups *)

\* the stored logs of the type dated before beforeDate
EarlierLogs(type, beforeDate) ==
    {l \in {StoredLogs(store)[i] : i \in DOMAIN StoredLogs(store)} :
        l.type = type /\ l.date < beforeDate}

\* the log of the type with the greatest date before beforeDate
LatestEarlier(type, beforeDate) ==
    IF EarlierLogs(type, beforeDate) = {}
    THEN Undefined
    ELSE Some(CHOOSE l \in EarlierLogs(type, beforeDate) :
                \A m \in EarlierLogs(type, beforeDate) : m.date <= l.date)

\* the sets the log holds for the exercise
SetsOf(log, exerciseId) ==
    IF \E i \in DOMAIN log.exercises : log.exercises[i].exerciseId = exerciseId
    THEN Some(log.exercises[CHOOSE i \in DOMAIN log.exercises :
                                log.exercises[i].exerciseId = exerciseId].sets)
    ELSE Undefined

\* what the lookups return according to the claim, for the arguments of the
\* last call
PreviousAsClaimed ==
    LET previous == LatestEarlier(calc.arg.type, calc.arg.beforeDate)
    IN  /\ calc.name = "getPreviousWorkoutLog" => calc.result = previous
        /\ calc.name = "getPreviousExerciseData"
            => calc.result = IF previous.defined
                             THEN SetsOf(previous.value, calc.arg.exerciseId)
                             ELSE Undefined

PreviousLookups == {"getPreviousWorkoutLog", "getPreviousExerciseData"}

\* C23: getPreviousWorkoutLog(type, beforeDate) returns the stored workout
\* log of that type with the greatest date strictly less than beforeDate,
\* and undefined when there is none; getPreviousExerciseData returns the
\* sets this log holds for the exerciseId, or undefined when there is no such
\* log or the log lacks the exercise.
C23_PreviousLogIsLatestEarlier ==
    calc.name \in PreviousLookups => PreviousAsClaimed

\* C23, for the calls whose read of the stored logs works: the same.  A
\* call whose read fails returns undefined whatever is stored.
C23_PreviousLogWhenRead ==
    /\ (calc.name \in PreviousLookups /\ calc.arg.env # "denied") => PreviousAsClaimed
    /\ (calc.name \in PreviousLookups /\ calc.arg.env = "denied")
            => calc.result = Undefined

\* two Push logs are dated before beforeDate and the newer one was saved
\* first: the lookup has returned the sets of the newer one
C23_Witness ==
    /\ calc.name = "getPreviousExerciseData"
    /\ calc.arg = [env |-> "ok", type |-> "Push", beforeDate |-> 2,
                   exerciseId |-> "push-1"]
    /\ Len(StoredLogs(store)) = 2
    /\ StoredLogs(store)[1] = LogOf(1, "Push")
    /\ StoredLogs(store)[2] = LogOf(0, "Push")
    /\ calc.result = Some(LogOf(1, "Push").exercises[1].sets)

----------------------------------------------------------------------------
(* Properties of the WorkoutTracker *)

\* the exercises are those of the template of the type, in its order, each
\* with targetSets sets
FollowsTemplate(exercises, type) ==
    /\ type \in TrainingTypes
    /\ DOMAIN exercises = DOMAIN WORKOUT_TEMPLATES[type]
    /\ \A i \in DOMAIN exercises :
        /\ exercises[i].exerciseId = WORKOUT_TEMPLATES[type][i].id
        /\ Len(exercises[i].sets) = WORKOUT_TEMPLATES[type][i].targetSets

\* every set is { reps: 0, weight: 0 }
AllSetsEmpty(exercises) ==
    \A i \in DOMAIN exercises : \A k \in DOMAIN exercises[i].sets :
        exercises[i].sets[k].reps = 0 /\ exercises[i].sets[k].weight = 0

\* a type was loaded for which no log of today was found
LoadedFresh ==
    /\ lastOp.name \in {"mount", "handleTypeChange"}
    /\ view.mounted
    /\ ~view.isSaved

\* the step is a call of updateSet
UpdateSetStep == lastOp'.name = "updateSet" /\ view' # view

\* C24: the set count is fixed by the template.  initializeExerciseLogs(type)
\* yields one ExerciseLog per template exercise, in template order, each with
\* targetSets sets of {reps: 0, weight: 0}; in the WorkoutTracker, on storage
\* written only through it, the exercises in memory and those of every
\* persisted WorkoutLog have exactly the template's targetSets sets per
\* exercise; updateSet changes only the addressed field of the addressed set.
C24_SetCountFixedByTemplate ==
    /\ [](LoadedFresh => /\ FollowsTemplate(view.exercises, view.selectedType)
                         /\ AllSetsEmpty(view.exercises))
    /\ [](view.mounted => FollowsTemplate(view.exercises, view.selectedType))
    /\ [](\A i \in DOMAIN StoredLogs(store) :
            FollowsTemplate(StoredLogs(store)[i].exercises, StoredLogs(store)[i].type))
    /\ [][UpdateSetStep =>
            LET a == lastOp'.arg
            IN  /\ DOMAIN view'.exercises = DOMAIN view.exercises
                /\ \A i \in DOMAIN view.exercises :
                    /\ view'.exercises[i].exerciseId = view.exercises[i].exerciseId
                    /\ DOMAIN view'.exercises[i].sets = DOMAIN view.exercises[i].sets
                    /\ \A k \in DOMAIN view.exercises[i].sets : \A f \in SetFields :
                        view'.exercises[i].sets[k][f] =
                            IF i = a.exerciseIndex + 1 /\ k = a.setIndex + 1 /\ f = a.field
                            THEN a.value
                            ELSE view.exercises[i].sets[k][f]]_vars

\* a Push log with reps and weight in the third set of its last exercise is
\* persisted, and the reps of that set were typed over since
C24_Witness ==
    /\ lastOp.name = "updateSet"
    /\ view.mounted
    /\ view.selectedType = "Push"
    /\ Len(StoredLogs(store)) = 1
    /\ StoredLogs(store)[1].type = "Push"
    /\ StoredLogs(store)[1].exercises[5].sets[3] = [weight |-> 8, reps |-> 8]
    /\ view.exercises[5].sets[3] = [weight |-> 8, reps |-> 0]
    /\ ~view.isSaved

----------------------------------------------------------------------------
(* Frame properties of the saves *)

\* the collections of a storage: the four fields of the app-data document
\* and the three other documents, as the loads return them
Collections(s) ==
    [workouts |-> StoredWorkouts(s),
     nutrition |-> StoredNutrition(s),
     weights |-> StoredWeights(s),
     nutritionSettings |-> getAppData(s, "ok").value.nutritionSettings,
     workoutLogs |-> StoredLogs(s),
     mealLogs |-> StoredMeals(s),
     nutritionTargets |-> getNutritionTargets(s, "ok").value]

CollectionNames ==
    {"workouts", "nutrition", "weights", "nutritionSettings",
     "workoutLogs", "mealLogs", "nutritionTargets"}

\* the collection an operation saves to
OwnCollection(name) ==
    CASE name = "saveWorkout" -> "workouts"
      [] name = "saveNutrition" -> "nutrition"
      [] name = "saveWeight" -> "weights"
      [] name = "updateNutritionSettings" -> "nutritionSettings"
      [] name = "saveWorkoutLog" -> "workoutLogs"
      [] name \in {"saveMealLog", "deleteMealLog"} -> "mealLogs"
      [] name = "saveNutritionTargets" -> "nutritionTargets"

\* C25: a save on one collection leaves every other collection unchanged:
\* saveWorkout, saveNutrition, saveWeight and updateNutritionSettings change
\* only their own field of the app-data document, saveWorkoutLog, saveMealLog,
\* deleteMealLog and saveNutritionTargets only their own document.
C25_SaveLeavesOtherCollections ==
    [][lastOp'.name \in Mutations
        => \A c \in CollectionNames \ {OwnCollection(lastOp'.name)} :
                Collections(store')[c] = Collections(store)[c]]_vars

\* a workout was saved, and written, on storage that holds changed settings
\* and changed nutrition targets, and both are as they were
C25_Witness ==
    /\ lastOp.name = "saveWorkout"
    /\ lastOp.ok
    /\ Len(StoredWorkouts(store)) = 1
    /\ StoredWorkouts(pre) = <<>>
    /\ Collections(store).nutritionSettings = [dailyProteinTarget |-> 150]
    /\ Collections(pre).nutritionSettings = [dailyProteinTarget |-> 150]
    /\ Collections(store).nutritionTargets = [protein |-> 150, calories |-> 2000]
    /\ Collections(pre).nutritionTargets = [protein |-> 150, calories |-> 2000]

----------------------------------------------------------------------------
(* Properties of a workout saved for today *)

\* a workout dated getTodayDate() was saved and written by the last
\* operation, and name was called after it with its storage read working
CalledAfterTodaysSave(name) ==
    /\ lastOp.name = "saveWorkout"
    /\ lastOp.ok
    /\ lastOp.arg.date = getTodayDate(now)
    /\ Called(name)

\* the storage without the workouts of the key of w
WithoutWorkout(s, w) ==
    [s EXCEPT ![STORAGE_KEY] =
        Stringify([getAppData(s, "ok").value EXCEPT !.workouts =
            SelectSeq(@, LAMBDA e : ~(e.date = w.date /\ e.type = w.type))])]

\* C26: the code agrees with itself on what today is: in every runtime and
\* at every time of day, right after saveWorkout was called with a workout
\* dated getTodayDate(), the last element of getWeeklyCompletion() is true,
\* calculateStreak() is at least 1 and the workoutsCompleted of
\* getWeeklyStats() counts that workout.
C26_StatsSeeTodaysWorkout ==
    /\ CalledAfterTodaysSave("getWeeklyCompletion") => calc.result[WeekDays]
    /\ CalledAfterTodaysSave("calculateStreak") => calc.result.streak >= 1
    /\ CalledAfterTodaysSave("getWeeklyStats")
        => calc.result.workoutsCompleted =
            getWeeklyStats(WithoutWorkout(store, lastOp.arg), "ok", now, tz).workoutsCompleted + 1

----------------------------------------------------------------------------
(* The rotation in runtimes of different offsets *)

\* C27: the rotation result depends only on the local calendar date and not
\* on the runtime's UTC offset: a runtime of another offset returns the same
\* type from getWorkoutTypeForDate for a Date of the same local calendar
\* date, and the local date 2024-01-01 is cycle position 0 (Push) in each.
C27_ResultIndependentOfOffset ==
    calc.name = "getWorkoutTypeForDate"
        => /\ \A offset \in Offsets : \A date \in Instants :
                LocalDay(date, FixedZone(offset)) = LocalDay(calc.arg, tz)
                    => getWorkoutTypeForDate(date, FixedZone(offset)).result = calc.result
           /\ LocalDay(calc.arg, tz) = 0 => calc.result = "Push"

\* C28: in every state of the WorkoutTracker, on every calendar day,
\* selectedType is one of Push, Pull and Legs (a Rest day starts on Push), so
\* the template looked up for selectedType exists and exercises has one
\* entry per template exercise.
C28_SelectedTypeHasTemplate ==
    (view.mounted \/ view.crashed)
        => /\ view.selectedType \in TrainingTypes
           /\ ~view.crashed
           /\ DOMAIN view.exercises = DOMAIN WORKOUT_TEMPLATES[view.selectedType]

----------------------------------------------------------------------------
(* The dashboard's stats and the views *)

\* what the stats function of the last call returns on the storage as it is
\* now, in the environment of that call
ReturnedNow ==
    CASE calc.name = "calculateStreak" -> calculateStreak(store, calc.arg.env, now, tz)
      [] calc.name = "getWeeklyCompletion" -> getWeeklyCompletion(store, calc.arg.env, now, tz)
      [] calc.name = "getWeeklyStats" -> getWeeklyStats(store, calc.arg.env, now, tz)

DashboardStats == {"calculateStreak", "getWeeklyCompletion", "getWeeklyStats"}

\* C29: the operations the views log with do not feed the dashboard's stats:
\* whatever saveWorkoutLog, saveMealLog, deleteMealLog and
\* saveNutritionTargets have done since calculateStreak, getWeeklyCompletion
\* or getWeeklyStats was called, the function still returns the value it
\* returned; it reads only the legacy workouts, nutrition and weights.
C29_ViewsDoNotFeedStats ==
    calc.name \in DashboardStats => calc.result = ReturnedNow

\* getWeeklyCompletion was called at UTC before a workout log of a day of the
\* week was saved and written, and no legacy workout is stored
C29_Witness ==
    /\ calc.name = "getWeeklyCompletion"
    /\ calc.arg.env = "ok"
    /\ tz = FixedZone(0)
    /\ lastOp.name = "saveWorkoutLog"
    /\ lastOp.ok
    /\ lastOp.arg.date = 1
    /\ StoredLogs(pre) = <<>>
    /\ StoredLogs(store) = <<lastOp.arg>>
    /\ StoredWorkouts(store) = <<>>
    /\ calc.result = [k \in 1..WeekDays |-> FALSE]

\* isSaved is right: if it is true, a persisted WorkoutLog of today (the
\* date getTodayDate() gives) and of selectedType holds the exercises in
\* memory
SavedIsPersisted(s, v, t) ==
    (v.mounted /\ v.isSaved)
        => \E i \in DOMAIN StoredLogs(s) :
            /\ StoredLogs(s)[i].date = getTodayDate(t)
            /\ StoredLogs(s)[i].type = v.selectedType
            /\ StoredLogs(s)[i].exercises = v.exercises

\* the step stays within one calendar day of the runtime and no storage
\* write fails in it
WithinDayWithoutFailure ==
    /\ LocalDay(now', tz) = LocalDay(now, tz)
    /\ ~(lastOp'.name = "handleSave" /\ ~lastOp'.ok)

\* C30: in the WorkoutTracker, within one calendar day and with no storage
\* write failing, after any sequence of handleTypeChange, updateSet and
\* handleSave: whenever isSaved is true, a persisted WorkoutLog exists for
\* (today, selectedType) and its exercises are those in memory; updateSet
\* always sets isSaved to false and handleSave always sets it to true.  As a
\* property of steps: isSaved is right when nothing is mounted, and every
\* step within the day without a failing write keeps it right.
C30_SavedMeansPersisted ==
    [][/\ (WithinDayWithoutFailure /\ SavedIsPersisted(store, view, now))
            => SavedIsPersisted(store', view', now')
       /\ lastOp'.name = "updateSet" => ~view'.isSaved
       /\ lastOp'.name = "handleSave" => view'.isSaved]_vars

====
